---- MODULE Spec2Model ----
(***************************************************************************)
(* FailState backend: the trust-gated ingestion pipeline.                  *)
(*   - Verification Worker  (app/verification_worker.py)                   *)
(*   - HTTP handlers that start passes (app/routers/issues.py, admin.py)   *)
(*   - Trust & Abuse Ledger (app/trust_system.py)                          *)
(*   - Rate Limiter         (app/rate_limiter.py)                          *)
(*   - Pre-Ingestion Gate   (app/pre_ingestion_filter.py)                  *)
(*                                                                         *)
(* The process is one asyncio event loop: code between two suspension      *)
(* points runs atomically.  The Supabase client is synchronous, so the     *)
(* only suspension points of a pass are the classifier call                *)
(* (verify_issue_with_ai) and the routing thread (asyncio.to_thread).      *)
(***************************************************************************)
EXTENDS Integers, FiniteSets, Sequences, TLC

(* ------------------------------ bounds --------------------------------- *)
NumIssues == 2
NumUsers == 2
MaxSpawn == 2
MaxPolls == 2
MaxTrustOps == 2
MaxNow == 2
NumIps == 1
NumUploaders == 3
NumProcs == 2

IssueIds == 1..NumIssues
Users == 1..NumUsers
Ips == 1..NumIps
\* the server processes that serve requests against the one store
Procs == 1..NumProcs

\* the users are interchangeable: one of them stands for the reporter who
\* submits
AnyReporter == CHOOSE u \in Users : TRUE

(* --------------------------- program constants ------------------------- *)
MAX_RETRIES == 3
POLL_BATCH_SIZE == 5
ADMIN_BATCH_SIZE == 50
AI_VERIFICATION_ENABLED == TRUE

VARIABLES
    issues,               \* table issues: id -> row (NoRow before creation)
    issues_verified,      \* table issues_verified: per original_issue_id, its rows
    issues_rejected,      \* table issues_rejected: per original_issue_id, its rows
    verification_audit_log, \* table verification_audit_log: set of rows
    effects,              \* per issue: compensating calls made on its behalf
    processing_lock,      \* VerificationWorker.processing_lock
    in_flight,            \* per issue: the suspended process_issue call, if any
    ready,                \* the event loop's FIFO queue of callbacks ready to run
    worker_pc,            \* the polling loop: sleep, item (between items), await
    pending_issues,       \* the polling loop's selected batch (rest of it)
    spawned,              \* verify_issue_async tasks created so far
    polls,                \* non-empty batches selected so far (counted up to MaxPolls)
    supabase,             \* the Ledger's and Limiter's tables (users, abuse_logs, ...)
    now,                  \* datetime.utcnow(), in hours
    request,              \* the last Ledger/Gate call and its arguments
    decision,             \* what that call returned
    evaluated,            \* the stages that call evaluated, in call order
    steps,                \* Ledger/Gate calls served so far
    gate_pc               \* per server process: its Gate run (idle, or checked:
                          \* every check passed, the attempt not yet recorded)
                          \* and the trust score the run has read

workerVars == <<issues, issues_verified, issues_rejected, verification_audit_log,
                effects, processing_lock, in_flight, ready, worker_pc,
                pending_issues, spawned, polls>>
ledgerVars == <<supabase, now, request, decision, evaluated, steps, gate_pc>>
vars == <<issues, issues_verified, issues_rejected, verification_audit_log,
          effects, processing_lock, in_flight, ready, worker_pc,
          pending_issues, spawned, polls,
          supabase, now, request, decision, evaluated, steps, gate_pc>>

(* ------------------------------ data ----------------------------------- *)
NoRow == [verification_status |-> "absent", retry_count |-> 0, reported_by |-> 0,
          image_url |-> FALSE, location |-> FALSE]

\* the payloads a reporter submits: a photo with coordinates, or text only
\* at coordinates (0, 0)
Payloads == {[image_url |-> TRUE, location |-> TRUE],
             [image_url |-> FALSE, location |-> FALSE]}

\* AIVerificationResponse, reduced to the flags the worker branches on
AIVerificationResponse == [is_nsfw : BOOLEAN, is_screenshot : BOOLEAN, is_genuine : BOOLEAN]

\* the hooks of trigger_post_verification_hooks whose call may fail
Hooks == {"points", "email"}

\* per issue: the calls made (points, penalty, success_email,
\* rejection_email), the reason handed to the last penalty call, and the
\* hooks whose call failed
NoEffects == [points |-> 0, penalty |-> 0, success_email |-> 0, rejection_email |-> 0,
              penalty_reason |-> "", failed |-> {}]

\* one verdict for each way a pass can end: accepted, and rejected for each
\* reason with every later rejection predicate true as well
Verdict(nsfw, screenshot, genuine) ==
    [is_nsfw |-> nsfw, is_screenshot |-> screenshot, is_genuine |-> genuine]
SampleVerdicts == {Verdict(FALSE, FALSE, TRUE), Verdict(TRUE, TRUE, FALSE),
                   Verdict(FALSE, TRUE, FALSE), Verdict(FALSE, FALSE, FALSE)}

\* what the environment does to one pass: whether the record insert returns
\* a row, which hook calls fail, the verdict the classifier gives if it
\* gives one, whether the status update goes through, whether the store
\* calls of the retry-count increment go through
Outcome(insert_ok, fails, verdict) ==
    [insert_ok |-> insert_ok, fails |-> fails, verdict |-> verdict, mark_ok |-> TRUE,
     incr_ok |-> TRUE]
\* every call succeeds
Reliable == {Outcome(TRUE, {}, v) : v \in SampleVerdicts}
\* the record insert may return no row (for an accepting verdict, for a
\* rejecting one)
InsertFaults == Reliable \cup {Outcome(FALSE, {}, Verdict(FALSE, FALSE, g)) : g \in BOOLEAN}
\* hook calls may fail (the classifier accepts, or rejects as not genuine)
HookFaults == {Outcome(TRUE, f, Verdict(FALSE, FALSE, g)) : f \in SUBSET Hooks, g \in BOOLEAN}
\* the status update may raise (after an accepting verdict, after a
\* rejecting one)
StatusFaults == Reliable \cup {[Outcome(TRUE, {}, Verdict(FALSE, FALSE, g))
                                  EXCEPT !.mark_ok = FALSE] : g \in BOOLEAN}
\* the increment of the retry count may raise
IncrementFaults == Reliable \cup {[o EXCEPT !.incr_ok = FALSE] : o \in Reliable}
\* every verdict the classifier can give
AnyVerdict == {Outcome(b, {}, v) : b \in BOOLEAN, v \in AIVerificationResponse}

NoPass == [pc |-> "none", by |-> "none"]

\* a server process with no Gate run in progress
IdleRun == [pc |-> "idle", trust_score |-> -1]

\* callbacks of the event loop: a verify_issue_async task created by
\* asyncio.create_task, the polling loop waking from asyncio.sleep, a pass
\* resuming because the call it awaits has completed
VerifyTask(i) == [kind |-> "verify", id |-> i]
Wake == [kind |-> "wake", id |-> 0]
Resume(i) == [kind |-> "resume", id |-> i]

InReady(e) == \E k \in 1..Len(ready) : ready[k] = e

Exists(i) == issues[i].verification_status # "absent"

RECURSIVE SetToSeq(_)
\* rows of a query result, in id order
SetToSeq(S) == IF S = {} THEN <<>>
               ELSE LET m == CHOOSE x \in S : \A y \in S : x <= y
                    IN <<m>> \o SetToSeq(S \ {m})

Take(s, n) == IF Len(s) <= n THEN s ELSE SubSeq(s, 1, n)

(* ------------------------- VerificationWorker -------------------------- *)

\* log_audit: one row appended to verification_audit_log; attempt defaults
\* to 1.  error_msg: whether an error message is given; ai_response: the
\* verdict given ({} for None)
log_audit_entry(log, issue_id, status, error_msg, ai_response) ==
    log \cup {[issue_id |-> issue_id, status |-> status, attempt_number |-> 1,
               error_message |-> error_msg, ai_raw_response |-> ai_response]}

\* log_audit(issue_id, status): error_msg and ai_response default to None
log_audit(log, issue_id, status) == log_audit_entry(log, issue_id, status, FALSE, {})

\* mark_issue_processed: UPDATE issues SET verification_status = status WHERE id
mark_issue_processed(tbl, issue_id, status) ==
    [tbl EXCEPT ![issue_id].verification_status = status]

\* the increment that stores nothing
increment_retry_count_lost(tbl, issue_id) == tbl

\* increment_retry_count: read, add one, write back; returns the new count
increment_retry_count(tbl, issue_id) ==
    [tbl EXCEPT ![issue_id].retry_count = @ + 1]

\* the cap test with a strict comparison
RetryCapReached_strict(new_retry_count) == new_retry_count > MAX_RETRIES

\* process_issue line 453: if new_retry_count >= 3
RetryCapReached(new_retry_count) == new_retry_count >= MAX_RETRIES

\* apply_fake_submission_penalty, lines 166-171: the reason handed to the
\* penalty function
penalty_reason(v) ==
    IF v.is_nsfw THEN "nsfw_content_detected"
    ELSE IF v.is_screenshot THEN "screenshot_or_meme_detected"
    ELSE "not_genuine_civic_issue"

\* the reasons with the screenshot test ahead of the NSFW test
rejection_reason_screenshot_first(v) ==
    IF v.is_screenshot THEN "screenshot_or_meme_detected"
    ELSE IF v.is_nsfw THEN "nsfw_content_detected"
    ELSE IF ~v.is_genuine THEN "not_genuine_civic_issue"
    ELSE "ai_verification_failed"

\* create_rejected_issue: the reason written to the rejected row
rejection_reason(v) ==
    IF v.is_nsfw THEN "nsfw_content_detected"
    ELSE IF v.is_screenshot THEN "screenshot_or_meme_detected"
    ELSE IF ~v.is_genuine THEN "not_genuine_civic_issue"
    ELSE "ai_verification_failed"

\* process_issue, lines 489-504
should_reject(v) == v.is_nsfw \/ v.is_screenshot \/ ~v.is_genuine

\* verify_issue_without_ai: the neutral fallback verdict
verify_issue_without_ai == [is_nsfw |-> FALSE, is_screenshot |-> FALSE, is_genuine |-> TRUE]

\* the polling loop is between two items of its batch: it holds the event
\* loop, no other callback runs
LoopRunning == worker_pc = "item"

\* process_issue returns to its caller: the polling loop goes on with the
\* rest of its batch (or to sleep), a verify_issue_async task ends
Return(by) ==
    IF by = "loop"
    THEN /\ pending_issues' = Tail(pending_issues)
         /\ worker_pc' = IF Len(pending_issues) > 1 THEN "item" ELSE "sleep"
    ELSE UNCHANGED <<pending_issues, worker_pc>>

\* process_issue suspends at an await
Suspend(by) ==
    /\ worker_pc' = IF by = "loop" THEN "await" ELSE worker_pc
    /\ UNCHANGED pending_issues

\* a pass that ends without discarding its id
Release_keeps(lock, i) == lock

\* the finally clause: self.processing_lock.discard(issue_id)
Release(lock, i) == lock \ {i}

\* apply_fake_submission_penalty: one call of the penalty function with the
\* reason, then one rejection notice (with the penalty details, or the
\* generic one when the call failed)
apply_fake_submission_penalty(e, v) ==
    [e EXCEPT !.penalty = @ + 1, !.rejection_email = @ + 1,
              !.penalty_reason = penalty_reason(v)]

\* the hooks run as one try block: a failing call ends them
trigger_post_verification_hooks_abort(e, fails) ==
    IF "points" \in fails
    THEN [e EXCEPT !.points = @ + 1, !.failed = @ \cup {"points"}]
    ELSE [e EXCEPT !.points = @ + 1, !.success_email = @ + 1,
                   !.failed = @ \cup (fails \cap {"email"})]

\* trigger_post_verification_hooks up to the routing: add_user_points and the
\* success notice, each in its own try block (fails: the calls that raise)
trigger_post_verification_hooks(e, fails) ==
    [e EXCEPT !.points = @ + 1, !.success_email = @ + 1, !.failed = @ \cup fails]

\* process_issue from the verdict on (lines 487-541): audit entry, record,
\* status, compensating actions.  tbl, log, lock are the tables as the
\* earlier statements of the same atomic step left them; o is what the
\* environment does to this pass.
Finalize(by, i, v, o, tbl, log, lock) ==
    LET \* mark_issue_processed logs an exception of the update and returns
        marked(status) == IF o.mark_ok THEN mark_issue_processed(tbl, i, status) ELSE tbl
    IN
    /\ verification_audit_log' =
           log_audit_entry(log, i, IF should_reject(v) THEN "rejected" ELSE "verified",
                           FALSE, {v})
    /\ IF should_reject(v)
       THEN IF o.insert_ok
            THEN \* create_rejected_issue, mark rejected, apply penalty + notice
                 /\ issues_rejected' = [issues_rejected EXCEPT
                        ![i] = Append(@, [rejection_reason |-> rejection_reason(v)])]
                 /\ issues' = marked("rejected")
                 /\ effects' = [effects EXCEPT
                        ![i] = apply_fake_submission_penalty(@, v)]
                 /\ processing_lock' = Release(lock, i)
                 /\ in_flight' = [in_flight EXCEPT ![i] = NoPass]
                 /\ UNCHANGED issues_verified
                 /\ Return(by)
            ELSE /\ issues' = marked("failed")
                 /\ processing_lock' = Release(lock, i)
                 /\ in_flight' = [in_flight EXCEPT ![i] = NoPass]
                 /\ UNCHANGED <<issues_verified, issues_rejected, effects>>
                 /\ Return(by)
       ELSE IF o.insert_ok
            THEN \* create_verified_issue, mark verified, post-verification hooks
                 /\ issues_verified' = [issues_verified EXCEPT
                        ![i] = Append(@, [is_genuine |-> v.is_genuine])]
                 /\ issues' = marked("verified")
                 /\ effects' = [effects EXCEPT
                        ![i] = trigger_post_verification_hooks(@, o.fails)]
                 /\ UNCHANGED issues_rejected
                 /\ IF tbl[i].location
                    THEN \* await asyncio.to_thread(route_verified_issue, ...)
                         /\ processing_lock' = lock
                         /\ in_flight' = [in_flight EXCEPT ![i] = [pc |-> "routing", by |-> by]]
                         /\ Suspend(by)
                    ELSE /\ processing_lock' = Release(lock, i)
                         /\ in_flight' = [in_flight EXCEPT ![i] = NoPass]
                         /\ Return(by)
            ELSE /\ issues' = marked("failed")
                 /\ processing_lock' = Release(lock, i)
                 /\ in_flight' = [in_flight EXCEPT ![i] = NoPass]
                 /\ UNCHANGED <<issues_verified, issues_rejected, effects>>
                 /\ Return(by)

\* process_issue from its entry to the first suspension point (lines 435-485)
process_issue(by, i, o) ==
    IF i \in processing_lock
    THEN \* already being processed - skipping
         /\ Return(by)
         /\ UNCHANGED <<issues, issues_verified, issues_rejected,
                        verification_audit_log, effects, processing_lock, in_flight>>
    ELSE LET lock == processing_lock \cup {i}
             log1 == log_audit(verification_audit_log, i, "processing")
             \* increment_retry_count logs an exception of its store calls
             \* and returns 0
             tbl == IF o.incr_ok THEN increment_retry_count(issues, i) ELSE issues
             new_retry_count == IF o.incr_ok THEN tbl[i].retry_count ELSE 0
         IN IF RetryCapReached(new_retry_count)
            THEN \* max retries exceeded: pending_manual audit entry, stop
                 /\ verification_audit_log' =
                        log_audit_entry(log1, i, "pending_manual", TRUE, {})
                 /\ issues' = tbl
                 /\ processing_lock' = Release(lock, i)
                 /\ UNCHANGED <<issues_verified, issues_rejected, effects, in_flight>>
                 /\ Return(by)
            ELSE IF AI_VERIFICATION_ENABLED /\ tbl[i].image_url
                 THEN \* await verify_issue_with_ai(...)
                      /\ verification_audit_log' = log1
                      /\ issues' = tbl
                      /\ processing_lock' = lock
                      /\ in_flight' = [in_flight EXCEPT ![i] = [pc |-> "ai", by |-> by]]
                      /\ UNCHANGED <<issues_verified, issues_rejected, effects>>
                      /\ Suspend(by)
                 ELSE Finalize(by, i, verify_issue_without_ai, o, tbl, log1, lock)

\* the classifier gave no verdict and the row is marked failed
AiUnavailable_marks_failed(by, i) ==
    /\ verification_audit_log' =
           log_audit_entry(verification_audit_log, i, "pending", TRUE, {})
    /\ issues' = mark_issue_processed(issues, i, "failed")
    /\ processing_lock' = Release(processing_lock, i)
    /\ in_flight' = [in_flight EXCEPT ![i] = NoPass]
    /\ UNCHANGED <<issues_verified, issues_rejected, effects>>
    /\ Return(by)

\* lines 473-482, the classifier gave no verdict: audit "pending", the row is
\* left as it is
AiUnavailable(by, i) ==
    /\ verification_audit_log' =
           log_audit_entry(verification_audit_log, i, "pending", TRUE, {})
    /\ processing_lock' = Release(processing_lock, i)
    /\ in_flight' = [in_flight EXCEPT ![i] = NoPass]
    /\ UNCHANGED <<issues, issues_verified, issues_rejected, effects>>
    /\ Return(by)

\* an except clause that writes the audit entry only
ProcessingFailed_audit_only(by, i) ==
    /\ verification_audit_log' =
           log_audit_entry(verification_audit_log, i, "failed", TRUE, {})
    /\ processing_lock' = Release(processing_lock, i)
    /\ in_flight' = [in_flight EXCEPT ![i] = NoPass]
    /\ UNCHANGED <<issues, issues_verified, issues_rejected, effects>>
    /\ Return(by)

\* the except clause (lines 543-548), then the finally clause: audit "failed"
\* with the error, status failed
ProcessingFailed(by, i) ==
    /\ verification_audit_log' =
           log_audit_entry(verification_audit_log, i, "failed", TRUE, {})
    /\ issues' = mark_issue_processed(issues, i, "failed")
    /\ processing_lock' = Release(processing_lock, i)
    /\ in_flight' = [in_flight EXCEPT ![i] = NoPass]
    /\ UNCHANGED <<issues_verified, issues_rejected, effects>>
    /\ Return(by)

\* asyncio.sleep of the polling loop elapses: the loop becomes ready to run
TimerFires ==
    /\ worker_pc = "sleep"
    /\ ~InReady(Wake)
    /\ polls < MaxPolls
    /\ ready' = Append(ready, Wake)
    /\ UNCHANGED <<issues, issues_verified, issues_rejected, verification_audit_log,
                   effects, processing_lock, in_flight, worker_pc, pending_issues,
                   spawned, polls, ledgerVars>>

\* the classifier call or the routing thread of a suspended pass completes:
\* the pass becomes ready to run
IoCompletes(i) ==
    /\ in_flight[i].pc \in {"ai", "routing"}
    /\ ~InReady(Resume(i))
    /\ ready' = Append(ready, Resume(i))
    /\ UNCHANGED <<issues, issues_verified, issues_rejected, verification_audit_log,
                   effects, processing_lock, in_flight, worker_pc, pending_issues,
                   spawned, polls, ledgerVars>>

\* the query of process_pending_issues: pending rows with retry_count < 3
Eligible(tbl) == {i \in IssueIds : /\ tbl[i].verification_status = "pending"
                                   /\ tbl[i].retry_count < MAX_RETRIES}

\* process_pending_issues: select a batch of the eligible rows
process_pending_issues ==
    /\ ~LoopRunning
    /\ ready # <<>> /\ Head(ready) = Wake
    /\ ready' = Tail(ready)
    /\ LET batch == Take(SetToSeq(Eligible(issues)), POLL_BATCH_SIZE)
       IN IF batch = <<>>
          THEN UNCHANGED <<pending_issues, worker_pc, polls>>
          ELSE /\ pending_issues' = batch
               /\ worker_pc' = "item"
               /\ polls' = IF polls < MaxPolls THEN polls + 1 ELSE polls
    /\ UNCHANGED <<issues, issues_verified, issues_rejected, verification_audit_log,
                   effects, processing_lock, in_flight, spawned, ledgerVars>>

\* the loop body: success = await self.process_issue(issue)
\* (outcomes: what the environment may do to this pass)
LoopItemWith(outcomes) ==
    /\ worker_pc = "item"
    /\ \E o \in outcomes : process_issue("loop", Head(pending_issues), o)
    /\ UNCHANGED <<ready, spawned, polls, ledgerVars>>

LoopItem == LoopItemWith(InsertFaults)

\* verify_issue_async: fetch the row by id and call process_issue
verify_issue_async_with(i, outcomes) ==
    /\ ~LoopRunning
    /\ ready # <<>> /\ Head(ready) = VerifyTask(i)
    /\ ready' = Tail(ready)
    /\ \E o \in outcomes : process_issue("task", i, o)
    /\ UNCHANGED <<spawned, polls, ledgerVars>>

verify_issue_async(i) == verify_issue_async_with(i, InsertFaults)

\* verify_issue_with_ai returns to the suspended pass: a verdict or None
AiReturnsWith(i, outcomes) ==
    /\ ~LoopRunning
    /\ ready # <<>> /\ Head(ready) = Resume(i)
    /\ in_flight[i].pc = "ai"
    /\ ready' = Tail(ready)
    /\ \/ AiUnavailable(in_flight[i].by, i)
       \/ \E o \in outcomes :
            Finalize(in_flight[i].by, i, o.verdict, o,
                     issues, verification_audit_log, processing_lock)
    /\ UNCHANGED <<spawned, polls, ledgerVars>>

AiReturns(i) == AiReturnsWith(i, InsertFaults)

\* an exception escapes the classifier call into process_issue
AiRaises(i) ==
    /\ ~LoopRunning
    /\ ready # <<>> /\ Head(ready) = Resume(i)
    /\ in_flight[i].pc = "ai"
    /\ ready' = Tail(ready)
    /\ ProcessingFailed(in_flight[i].by, i)
    /\ UNCHANGED <<spawned, polls, ledgerVars>>

\* route_verified_issue returns True, or returns False or raises: logged,
\* the hooks end, process_issue returns
\* (results: whether the routing may succeed, may fail)
RoutingReturnsWith(i, results) ==
    /\ ~LoopRunning
    /\ ready # <<>> /\ Head(ready) = Resume(i)
    /\ in_flight[i].pc = "routing"
    /\ ready' = Tail(ready)
    /\ \E routing_success \in results :
          effects' = [effects EXCEPT
              ![i].failed = IF routing_success THEN @ ELSE @ \cup {"routing"}]
    /\ processing_lock' = Release(processing_lock, i)
    /\ in_flight' = [in_flight EXCEPT ![i] = NoPass]
    /\ Return(in_flight[i].by)
    /\ UNCHANGED <<issues, issues_verified, issues_rejected, verification_audit_log,
                   spawned, polls, ledgerVars>>

RoutingReturns(i) == RoutingReturnsWith(i, {TRUE})

(* ------------------------------ handlers ------------------------------- *)

\* asyncio.create_task(verify_issue_async(id)) for each id of the sequence
RECURSIVE Spawn(_, _)
Spawn(ids, q) == IF ids = <<>> THEN q
                 ELSE Spawn(Tail(ids), Append(q, VerifyTask(Head(ids))))

\* POST /issues: insert the row (pending, retry_count 0) and queue verification
create_issue(u, p) ==
    /\ ~LoopRunning
    /\ spawned < MaxSpawn
    /\ spawned' = spawned + 1
    /\ \E i \in IssueIds :
         /\ ~Exists(i)
         /\ \A j \in IssueIds : j < i => Exists(j)
         /\ issues' = [issues EXCEPT ![i] = [verification_status |-> "pending",
                                             retry_count |-> 0, reported_by |-> u,
                                             image_url |-> p.image_url,
                                             location |-> p.location]]
         /\ ready' = Spawn(<<i>>, ready)
    /\ UNCHANGED <<issues_verified, issues_rejected, verification_audit_log, effects,
                   processing_lock, in_flight, worker_pc, pending_issues, polls,
                   ledgerVars>>

\* POST /issues/admin/process-pending: queue verification of every pending row
admin_process_pending_issues ==
    /\ ~LoopRunning
    /\ LET sel == {i \in IssueIds : issues[i].verification_status = "pending"}
           batch == Take(SetToSeq(sel), ADMIN_BATCH_SIZE)
       IN /\ batch # <<>>
          /\ spawned + Len(batch) <= MaxSpawn
          /\ spawned' = spawned + Len(batch)
          /\ ready' = Spawn(batch, ready)
    /\ UNCHANGED <<issues, issues_verified, issues_rejected, verification_audit_log,
                   effects, processing_lock, in_flight, worker_pc, pending_issues,
                   polls, ledgerVars>>

\* POST /admin/issues/{id}/process: reset retry_count, queue verification
manually_process_issue(i) ==
    /\ ~LoopRunning
    /\ spawned < MaxSpawn
    /\ Exists(i)
    /\ issues' = [issues EXCEPT ![i].retry_count = 0]
    /\ ready' = Spawn(<<i>>, ready)
    /\ spawned' = spawned + 1
    /\ UNCHANGED <<issues_verified, issues_rejected, verification_audit_log, effects,
                   processing_lock, in_flight, worker_pc, pending_issues,
                   polls, ledgerVars>>

\* the callbacks of the polling-loop task and of the pass it awaits
OfWorkerTask(e) ==
    \/ e = Wake
    \/ e.kind = "resume" /\ in_flight[e.id].by = "loop"

\* lifespan, after the yield: worker_task.cancel(), await worker_task.
\* CancelledError is raised in the worker task at the await where it is
\* suspended: asyncio.sleep, or, inside the process_issue call it awaits, the
\* classifier call or the routing thread.  It is no Exception, so no except
\* clause of the worker catches it; only the finally clause of process_issue
\* runs (the lock is discarded) and the task ends.
lifespan_shutdown ==
    /\ ~LoopRunning
    /\ worker_pc \in {"sleep", "await"}
    /\ worker_pc' = "cancelled"
    /\ pending_issues' = <<>>
    /\ ready' = SelectSeq(ready, LAMBDA e : ~OfWorkerTask(e))
    /\ in_flight' = [i \in IssueIds |->
                        IF in_flight[i].by = "loop" THEN NoPass ELSE in_flight[i]]
    /\ processing_lock' = {i \in processing_lock : in_flight[i].by # "loop"}
    /\ UNCHANGED <<issues, issues_verified, issues_rejected, verification_audit_log,
                   effects, spawned, polls, ledgerVars>>

(* ------------------------- Trust & Abuse Ledger ------------------------ *)

NULL == -1
Stranger == 0          \* an identity with no row in users

\* TrustSystemService.TRUST_DELTAS
TRUST_DELTAS == [nsfw |-> -30, duplicate |-> -10, ocr |-> -5, garbage |-> -5,
                 rate_limit |-> -3, bot_behavior |-> -20,
                 verified_issue |-> 2, issue_resolved |-> 5]
DeltaNames == DOMAIN TRUST_DELTAS
DEFAULT_DELTA == -5
SHADOW_BAN_TRUST_THRESHOLD == 20
SHADOW_BAN_VIOLATION_THRESHOLD == 5
HOUR == 1
DAY == 24

\* the tables a store outage makes every call on raise (none of the code's
\* store calls is made outside a try block of the function that makes it)
Down(db, table) == table \in db.unavailable

Min(a, b) == IF a < b THEN a ELSE b
Max(a, b) == IF a > b THEN a ELSE b

\* the lookup that gives the default whatever is stored
get_user_trust_score_default(db, user_id) == 100

\* get_user_trust_score: the stored score, 100 when the identity has no row
\* or the query raises
get_user_trust_score(db, user_id) ==
    IF Down(db, "users") THEN 100
    ELSE IF user_id \in DOMAIN db.users THEN db.users[user_id].trust_score ELSE 100

\* the database function update_trust_score(p_user_id, p_delta): atomic
\* clamp-add, returns the new score (NULL when no row matches)
rpc_update_trust_score(db, user_id, delta) ==
    IF user_id \in DOMAIN db.users
    THEN LET n == Max(0, Min(100, db.users[user_id].trust_score + delta))
         IN [db |-> [db EXCEPT !.users[user_id].trust_score = n], data |-> n]
    ELSE [db |-> db, data |-> NULL]

\* shadow_ban_user: is_shadow_banned = True, banned_until = now + duration
\* (None when no duration is given)
shadow_ban_user(db, user_id, duration, t) ==
    IF Down(db, "users") THEN db
    ELSE IF user_id \in DOMAIN db.users
    THEN [db EXCEPT !.users[user_id].is_shadow_banned = TRUE,
                    !.users[user_id].banned_until =
                        IF duration = NULL THEN NULL ELSE t + duration]
    ELSE db

\* unshadow_ban_user
unshadow_ban_user(db, user_id) ==
    IF Down(db, "users") THEN db
    ELSE IF user_id \in DOMAIN db.users
    THEN [db EXCEPT !.users[user_id].is_shadow_banned = FALSE,
                    !.users[user_id].banned_until = NULL]
    ELSE db

\* _consider_shadow_ban: skip when already banned, else shadow_ban_user
consider_shadow_ban(db, user_id, t) ==
    IF Down(db, "users") THEN db
    ELSE IF user_id \in DOMAIN db.users /\ db.users[user_id].is_shadow_banned
    THEN db
    ELSE shadow_ban_user(db, user_id, NULL, t)

\* line 75: new_score = result.data if result.data else 100
\* (None and 0 are both falsy)
ScoreOrDefault(data) == IF data = NULL \/ data = 0 THEN 100 ELSE data

\* update_trust_score: the rpc, then shadow-ban consideration when the score
\* read back is at most the threshold; returns the score read back, 100 when
\* the rpc raises
update_trust_score(db, user_id, delta, t) ==
    LET r == rpc_update_trust_score(db, user_id, delta)
        new_score == ScoreOrDefault(r.data)
    IN IF Down(db, "users") THEN [db |-> db, new_score |-> 100]
       ELSE [db |-> IF new_score <= SHADOW_BAN_TRUST_THRESHOLD
                    THEN consider_shadow_ban(r.db, user_id, t)
                    ELSE r.db,
             new_score |-> new_score]

\* the lookup answering "not banned" for every identity
is_shadow_banned_never(db, user_id, t) == [db |-> db, banned |-> FALSE]

\* is_shadow_banned: lazily clears an expired temporary ban; False when the
\* query raises
is_shadow_banned(db, user_id, t) ==
    IF Down(db, "users") \/ user_id \notin DOMAIN db.users
    THEN [db |-> db, banned |-> FALSE]
    ELSE LET user == db.users[user_id]
         IN IF user.banned_until # NULL /\ t > user.banned_until
            THEN [db |-> unshadow_ban_user(db, user_id), banned |-> FALSE]
            ELSE [db |-> db, banned |-> user.is_shadow_banned]

\* the validation without its upper limit
AdminScoreAccepted_no_le(new_score) == new_score >= 0

\* admin PATCH /users/{id}/trust-score: Query(..., ge=0, le=100)
AdminScoreAccepted(new_score) == new_score >= 0 /\ new_score <= 100

\* --- calls into the Ledger (from the Gate, the admin console, operators) ---

Identities == Users \cup {Stranger}
Durations == {NULL, 1}
\* scores an admin may submit, inside and outside the accepted range
AdminScores == {-1, 0, 1, 19, 20, 21, 25, 30, 50, 100, 101}

LedgerCall(op, args, result, db) ==
    /\ steps < MaxTrustOps
    /\ steps' = steps + 1
    /\ request' = [op |-> op, args |-> args]
    /\ decision' = result
    /\ supabase' = db
    /\ evaluated' = <<>>
    /\ UNCHANGED <<now, gate_pc>>
    /\ UNCHANGED workerVars

Call_update_trust_score(user_id, name) ==
    LET r == update_trust_score(supabase, user_id, TRUST_DELTAS[name], now)
    IN LedgerCall("update_trust_score", <<user_id, TRUST_DELTAS[name]>>,
                  [new_score |-> r.new_score], r.db)

Call_shadow_ban_user(user_id, duration) ==
    LedgerCall("shadow_ban_user", <<user_id, duration>>, [none |-> TRUE],
               shadow_ban_user(supabase, user_id, duration, now))

Call_is_shadow_banned(user_id) ==
    LET r == is_shadow_banned(supabase, user_id, now)
    IN LedgerCall("is_shadow_banned", <<user_id>>, [banned |-> r.banned], r.db)

\* admin PATCH /users/{id}/trust-score
update_user_trust_score(user_id, new_score) ==
    /\ AdminScoreAccepted(new_score)
    /\ user_id \in DOMAIN supabase.users
    /\ LedgerCall("admin_trust_score", <<user_id, new_score>>, [none |-> TRUE],
                  [supabase EXCEPT !.users[user_id].trust_score = new_score])

\* admin PATCH /users/{id}/reset-penalties: trust score back to 80
reset_user_penalties(user_id) ==
    /\ user_id \in DOMAIN supabase.users
    /\ LedgerCall("reset_penalties", <<user_id>>, [none |-> TRUE],
                  [supabase EXCEPT !.users[user_id].trust_score = 80])

\* an hour passes
Tick ==
    /\ now < MaxNow
    /\ now' = now + 1
    /\ UNCHANGED <<supabase, request, decision, evaluated, steps, gate_pc>>
    /\ UNCHANGED workerVars

(* ------------------------------ tables --------------------------------- *)

\* a table whose rows carry no key of their own is kept as the number of
\* copies of each row
NoRows == [r \in {} |-> 0]

\* table(...).insert(row)
Insert(table, row) ==
    IF row \in DOMAIN table THEN [table EXCEPT ![row] = @ + 1]
    ELSE table @@ (row :> 1)

\* select("id", count="exact") over the rows that pass the filters
RECURSIVE Copies(_, _)
Copies(table, rows) ==
    IF rows = {} THEN 0
    ELSE LET r == CHOOSE x \in rows : TRUE
         IN table[r] + Copies(table, rows \ {r})

(* ----------------------------- Rate Limiter ---------------------------- *)

RateLimit(h, d) == [max_per_hour |-> h, max_per_day |-> d]
DEFAULT_LIMITS == RateLimit(10, 50)
LOW_TRUST_LIMITS == RateLimit(3, 10)
HIGH_TRUST_LIMITS == RateLimit(20, 100)
IP_LIMITS == RateLimit(20, 100)
IP_REJECTION_LIMITS == RateLimit(10, 30)
RETRY_AFTER_HOUR == 3600
RETRY_AFTER_DAY == 86400
WEEK == 168

\* a message with what is formatted into it: a limit (NULL when there is
\* none) or the stored reason of a ban ("" when there is none)
Reason(msg, n) == [msg |-> msg, n |-> n, ban |-> ""]
BlockedReason(ban_reason) == [msg |-> "IP blocked", n |-> NULL, ban |-> ban_reason]

RateLimitResult(allowed, reason, retry_after) ==
    [allowed |-> allowed, reason |-> reason, retry_after |-> retry_after]

\* the tiers with a score of 30 still in the low one
get_user_limits_inclusive(trust_score) ==
    IF trust_score <= 30 THEN LOW_TRUST_LIMITS
    ELSE IF trust_score >= 80 THEN HIGH_TRUST_LIMITS
    ELSE DEFAULT_LIMITS

\* _get_user_limits
get_user_limits(trust_score) ==
    IF trust_score < 30 THEN LOW_TRUST_LIMITS
    ELSE IF trust_score >= 80 THEN HIGH_TRUST_LIMITS
    ELSE DEFAULT_LIMITS

\* check_user_rate_limit: successful attempts of the user in the last hour,
\* then in the last day, against the limits of the trust tier
check_user_rate_limit(db, user_id, trust_score, t) ==
    LET limits == get_user_limits(trust_score)
        hourly_count == Copies(db.user_rate_limit_tracking, {r \in DOMAIN db.user_rate_limit_tracking : r.user_id = user_id /\ r.success
                                         /\ r.timestamp > t - HOUR})
        daily_count == Copies(db.user_rate_limit_tracking, {r \in DOMAIN db.user_rate_limit_tracking : r.user_id = user_id /\ r.success
                                        /\ r.timestamp > t - DAY})
    IN IF Down(db, "user_rate_limit_tracking")
       THEN RateLimitResult(TRUE, Reason("Error", NULL), NULL)
       ELSE IF hourly_count >= limits.max_per_hour
       THEN RateLimitResult(FALSE, Reason("Hourly limit exceeded", limits.max_per_hour),
                            RETRY_AFTER_HOUR)
       ELSE IF daily_count >= limits.max_per_day
       THEN RateLimitResult(FALSE, Reason("Daily limit exceeded", limits.max_per_day),
                            RETRY_AFTER_DAY)
       ELSE RateLimitResult(TRUE, Reason("Rate limit OK", NULL), NULL)

\* check_ip_rate_limit: the hourly query filters on success = action_filter,
\* the daily query has no success filter
check_ip_rate_limit(db, ip_address, check_rejections, t) ==
    LET limits == IF check_rejections THEN IP_REJECTION_LIMITS ELSE IP_LIMITS
        action_filter == ~check_rejections
        hourly_count == Copies(db.ip_rate_limit_tracking, {r \in DOMAIN db.ip_rate_limit_tracking : r.ip_address = ip_address
                                         /\ r.success = action_filter
                                         /\ r.timestamp > t - HOUR})
        daily_count == Copies(db.ip_rate_limit_tracking, {r \in DOMAIN db.ip_rate_limit_tracking : r.ip_address = ip_address
                                        /\ r.timestamp > t - DAY})
    IN IF Down(db, "ip_rate_limit_tracking")
       THEN RateLimitResult(TRUE, Reason("Error", NULL), NULL)
       ELSE IF hourly_count >= limits.max_per_hour
       THEN RateLimitResult(FALSE, Reason("IP rate limit exceeded per hour", limits.max_per_hour),
                            RETRY_AFTER_HOUR)
       ELSE IF daily_count >= limits.max_per_day
       THEN RateLimitResult(FALSE, Reason("IP rate limit exceeded per day", limits.max_per_day),
                            RETRY_AFTER_DAY)
       ELSE RateLimitResult(TRUE, Reason("IP rate limit OK", NULL), NULL)

\* table ip_blacklist: the row of an address that a select returns first is
\* kept under the address in ip_blacklist, the further rows of any address, in
\* the order of their insertion, in ip_blacklist_more
BanRow(ip_address, ban) ==
    [ip_address |-> ip_address, reason |-> ban.reason,
     banned_until |-> ban.banned_until, violation_count |-> ban.violation_count]

\* table("ip_blacklist").delete().eq("ip_address", ip_address): every row of
\* the address
delete_bans(db, ip_address) ==
    [db EXCEPT
        !.ip_blacklist = [i \in DOMAIN db.ip_blacklist \ {ip_address} |->
                              db.ip_blacklist[i]],
        !.ip_blacklist_more = SelectSeq(@, LAMBDA r : r.ip_address # ip_address)]

\* table("ip_blacklist").update(ban).eq("ip_address", ip_address): every row
\* of the address
update_bans(db, ip_address, ban) ==
    [db EXCEPT
        !.ip_blacklist =
            [i \in DOMAIN db.ip_blacklist |->
                 IF i = ip_address THEN ban ELSE db.ip_blacklist[i]],
        !.ip_blacklist_more =
            [k \in DOMAIN db.ip_blacklist_more |->
                 IF db.ip_blacklist_more[k].ip_address = ip_address
                 THEN BanRow(ip_address, ban) ELSE db.ip_blacklist_more[k]]]

\* the lookup that takes a ban without an end for one that has ended
check_ip_blacklist_null_expired(db, ip_address, t) ==
    IF Down(db, "ip_blacklist") \/ ip_address \notin DOMAIN db.ip_blacklist
    THEN [db |-> db, blocked |-> FALSE, reason |-> ""]
    ELSE LET ban == db.ip_blacklist[ip_address]
         IN IF t > ban.banned_until
            THEN [db |-> delete_bans(db, ip_address),
                  blocked |-> FALSE, reason |-> ""]
            ELSE [db |-> db, blocked |-> TRUE, reason |-> ban.reason]

\* the lookup that blocks the address when the query raises
check_ip_blacklist_fail_closed(db, ip_address, t) ==
    IF Down(db, "ip_blacklist")
    THEN [db |-> db, blocked |-> TRUE, reason |-> "error"]
    ELSE IF ip_address \notin DOMAIN db.ip_blacklist
    THEN [db |-> db, blocked |-> FALSE, reason |-> ""]
    ELSE LET ban == db.ip_blacklist[ip_address]
         IN IF ban.banned_until # NULL /\ t > ban.banned_until
            THEN [db |-> delete_bans(db, ip_address),
                  blocked |-> FALSE, reason |-> ""]
            ELSE [db |-> db, blocked |-> TRUE, reason |-> ban.reason]

\* check_ip_blacklist: an expired temporary ban is deleted and reads as
\* not blacklisted; not blacklisted when the query raises
check_ip_blacklist(db, ip_address, t) ==
    IF Down(db, "ip_blacklist") \/ ip_address \notin DOMAIN db.ip_blacklist
    THEN [db |-> db, blocked |-> FALSE, reason |-> ""]
    ELSE LET ban == db.ip_blacklist[ip_address]
         IN IF ban.banned_until # NULL /\ t > ban.banned_until
            THEN [db |-> delete_bans(db, ip_address),
                  blocked |-> FALSE, reason |-> ""]
            ELSE [db |-> db, blocked |-> TRUE, reason |-> ban.reason]

\* the attempt recorded for the identity only
record_attempt_user_only(db, user_id, ip_address, success, t) ==
    [db EXCEPT
        !.user_rate_limit_tracking =
            Insert(@, [user_id |-> user_id, success |-> success, timestamp |-> t])]

\* record_attempt: one row in each tracking table (timestamp: column default),
\* the user's first; an insert that raises ends the call (the exception is
\* logged), leaving what was inserted before it
record_attempt(db, user_id, ip_address, success, t) ==
    LET db1 == [db EXCEPT
                   !.user_rate_limit_tracking =
                       Insert(@, [user_id |-> user_id, success |-> success,
                                  timestamp |-> t])]
    IN IF Down(db, "user_rate_limit_tracking") THEN db
       ELSE IF Down(db, "ip_rate_limit_tracking") THEN db1
       ELSE [db1 EXCEPT
                !.ip_rate_limit_tracking =
                    Insert(@, [ip_address |-> ip_address, success |-> success,
                               user_id |-> user_id, timestamp |-> t])]

\* the ladder with each step starting one violation earlier
escalate_ip_ban_early(db, ip_address, reason, violation_count, t) ==
    LET ban_duration == IF violation_count < 2 THEN t + HOUR
                        ELSE IF violation_count < 5 THEN t + DAY
                        ELSE IF violation_count < 10 THEN t + WEEK
                        ELSE NULL
        ban == [reason |-> reason, banned_until |-> ban_duration,
                violation_count |-> violation_count]
    IN IF ip_address \in DOMAIN db.ip_blacklist
       THEN update_bans(db, ip_address, ban)
       ELSE [db EXCEPT !.ip_blacklist = @ @@ (ip_address :> ban)]

\* escalate_ip_ban: the ban duration by violation count, then upsert
escalate_ip_ban(db, ip_address, reason, violation_count, t) ==
    LET ban_duration == IF violation_count <= 2 THEN t + HOUR
                        ELSE IF violation_count <= 5 THEN t + DAY
                        ELSE IF violation_count <= 10 THEN t + WEEK
                        ELSE NULL
        ban == [reason |-> reason, banned_until |-> ban_duration,
                violation_count |-> violation_count]
    IN IF ip_address \in DOMAIN db.ip_blacklist
       THEN update_bans(db, ip_address, ban)
       ELSE [db EXCEPT !.ip_blacklist = @ @@ (ip_address :> ban)]

(* --------------------- Ledger: abuse log, evidence --------------------- *)

\* the database function log_abuse(...): one row appended to abuse_logs
rpc_log_abuse(db, user_id, ip_address, violation_type, severity, t) ==
    [db EXCEPT !.abuse_logs =
        Insert(@, [user_id |-> user_id, ip_address |-> ip_address,
                   violation_type |-> violation_type, severity |-> severity,
                   timestamp |-> t])]

\* the escalation with the ban only above the threshold
check_escalation_above(db, user_id, ip_address, t) ==
    LET violation_count == Copies(db.abuse_logs, {r \in DOMAIN db.abuse_logs : r.user_id = user_id /\ r.timestamp > t - DAY})
    IN IF violation_count > SHADOW_BAN_VIOLATION_THRESHOLD
       THEN shadow_ban_user(db, user_id, NULL, t)
       ELSE db

\* _check_escalation: shadow ban at 5 violations of the user within a day
\* (the IP count is only logged)
check_escalation(db, user_id, ip_address, t) ==
    LET violation_count == Copies(db.abuse_logs, {r \in DOMAIN db.abuse_logs : r.user_id = user_id /\ r.timestamp > t - DAY})
    IN IF violation_count >= SHADOW_BAN_VIOLATION_THRESHOLD
       THEN shadow_ban_user(db, user_id, NULL, t)
       ELSE db

\* log_abuse: the abuse row, then escalation
log_abuse(db, user_id, ip_address, violation_type, severity, t) ==
    check_escalation(rpc_log_abuse(db, user_id, ip_address, violation_type, severity, t),
                     user_id, ip_address, t)

\* store_shadow_banned_submission
store_shadow_banned_submission(db, user_id, ip_address, submission_data) ==
    [db EXCEPT !.shadow_banned_submissions =
        Insert(@, [user_id |-> user_id, ip_address |-> ip_address,
                   submission_data |-> submission_data])]

\* what set() does with the rows of a query result: no rows give the empty
\* set; a row is a dict, which is unhashable, so any row raises TypeError
SetOfRows(data) ==
    IF data = {} THEN [raised |-> FALSE, size |-> 0]
    ELSE [raised |-> TRUE, size |-> 0]

\* detect_coordinated_attack: the uploads of the fingerprint within the last
\* hour, the number of elements of set(result.data), a bot-pattern record and
\* True from 3 on; any exception is caught and gives False
detect_coordinated_attack(db, image_hash, user_ids, ip_addresses, t) ==
    LET data == {r \in DOMAIN db.image_hashes :
                    r.perceptual_hash = image_hash /\ r.uploaded_at > t - HOUR}
        unique == SetOfRows(data)
    IN IF unique.raised
       THEN [db |-> db, attack |-> FALSE]
       ELSE IF unique.size >= 3
       THEN [db |-> [db EXCEPT !.bot_detection_patterns =
                        Insert(@, [pattern_type |-> "coordinated_image",
                                   image_hash |-> image_hash,
                                   user_count |-> unique.size,
                                   user_ids |-> user_ids,
                                   ip_addresses |-> ip_addresses,
                                   confidence_score |-> 95])],
             attack |-> TRUE]
       ELSE [db |-> db, attack |-> FALSE]

(* --------------------------- content filters --------------------------- *)

\* an image, reduced to what each detector finds in it
\* an image by what each detector finds in it; raises names the detectors
\* whose check raises inside its try block on this image
Image(nsfw, duplicate, ocr, garbage) ==
    [nsfw |-> nsfw, duplicate |-> duplicate, ocr |-> ocr, garbage |-> garbage,
     raises |-> {}]

\* the images submitted: a clean one, and for each detector one that it is
\* the first to reject and that every later detector would reject too
Images == {Image(FALSE, FALSE, FALSE, FALSE), Image(TRUE, TRUE, TRUE, TRUE),
           Image(FALSE, TRUE, TRUE, TRUE), Image(FALSE, FALSE, TRUE, TRUE),
           Image(FALSE, FALSE, FALSE, TRUE)}

FilterResult(passed, filter_name, reason, severity) ==
    [passed |-> passed, filter_name |-> filter_name, reason |-> reason,
     severity |-> severity]

\* what a detector returns from its except clause
DetectorError(filter_name) == FilterResult(TRUE, filter_name, Reason("Error", NULL), "low")

\* the detectors (each reduced to one failing result)
nsfw_check(image) ==
    IF "nsfw" \in image.raises THEN DetectorError("nsfw")
    ELSE IF image.nsfw THEN FilterResult(FALSE, "nsfw", Reason("NSFW content detected", NULL), "critical")
    ELSE FilterResult(TRUE, "nsfw", Reason("Clean", NULL), "low")
duplicate_check(image) ==
    IF "duplicate" \in image.raises THEN DetectorError("duplicate")
    ELSE IF image.duplicate
    THEN FilterResult(FALSE, "duplicate", Reason("You've already uploaded this image", NULL), "medium")
    ELSE FilterResult(TRUE, "duplicate", Reason("No duplicates found", NULL), "low")
ocr_check(image) ==
    IF "ocr" \in image.raises THEN DetectorError("ocr")
    ELSE IF image.ocr
    THEN FilterResult(FALSE, "ocr", Reason("Image appears to be a screenshot", NULL), "medium")
    ELSE FilterResult(TRUE, "ocr", Reason("No screenshot detected", NULL), "low")
garbage_check(image) ==
    IF "garbage" \in image.raises THEN DetectorError("garbage")
    ELSE IF image.garbage THEN FilterResult(FALSE, "garbage", Reason("Invalid image", NULL), "medium")
    ELSE FilterResult(TRUE, "garbage", Reason("Image quality OK", NULL), "low")
exif_check(image) == FilterResult(TRUE, "exif", Reason("EXIF checked", NULL), "low")

\* the detectors in order, all of them run whatever the earlier ones found
run_all_filters_exhaustive(image) ==
    LET results == <<nsfw_check(image), duplicate_check(image), ocr_check(image),
                     garbage_check(image), exif_check(image)>>
    IN [passed |-> \A k \in 1..Len(results) : results[k].passed, results |-> results]

\* run_all_filters: the detectors in order, stopping at the first that fails;
\* results holds the result of every detector that ran
run_all_filters(image) ==
    LET r1 == <<nsfw_check(image)>>
        r2 == Append(r1, duplicate_check(image))
        r3 == Append(r2, ocr_check(image))
        r4 == Append(r3, garbage_check(image))
        r5 == Append(r4, exif_check(image))
    IN IF ~r1[1].passed THEN [passed |-> FALSE, results |-> r1]
       ELSE IF ~r2[2].passed THEN [passed |-> FALSE, results |-> r2]
       ELSE IF ~r3[3].passed THEN [passed |-> FALSE, results |-> r3]
       ELSE IF ~r4[4].passed THEN [passed |-> FALSE, results |-> r4]
       ELSE [passed |-> TRUE, results |-> r5]

\* the names of the detectors that ran
Names(results) == [k \in 1..Len(results) |-> results[k].filter_name]

(* -------------------------- Pre-Ingestion Gate ------------------------- *)

FilteringDecision(allowed, reason, severity, retry_after, trust_score, banned) ==
    [allowed |-> allowed, reason |-> reason, severity |-> severity,
     retry_after |-> retry_after, trust_score |-> trust_score,
     is_shadow_banned |-> banned]

\* a content denial that applies the default delta whatever filter failed
ContentDenied_default_delta(db, user_id, ip_address, content, stages, t) ==
    LET failed_filter == content.results[
                CHOOSE k \in 1..Len(content.results) :
                    /\ ~content.results[k].passed
                    /\ \A j \in 1..(k - 1) : content.results[j].passed]
        trust_delta == DEFAULT_DELTA
        db1 == record_attempt(db, user_id, ip_address, FALSE, t)
        db2 == log_abuse(db1, user_id, ip_address, failed_filter.filter_name,
                         failed_filter.severity, t)
        r == update_trust_score(db2, user_id, trust_delta, t)
    IN [db |-> r.db,
        decision |-> FilteringDecision(FALSE, failed_filter.reason, failed_filter.severity,
                                       NULL, r.new_score, FALSE),
        evaluated |-> stages \o Names(content.results)]

\* run_all_checks lines 203-253: a content filter failed
ContentDenied(db, user_id, ip_address, content, stages, t) ==
    LET failed_filter == content.results[
                CHOOSE k \in 1..Len(content.results) :
                    /\ ~content.results[k].passed
                    /\ \A j \in 1..(k - 1) : content.results[j].passed]
        trust_delta == IF failed_filter.filter_name \in DOMAIN TRUST_DELTAS
                       THEN TRUST_DELTAS[failed_filter.filter_name]
                       ELSE DEFAULT_DELTA
        db1 == record_attempt(db, user_id, ip_address, FALSE, t)
        db2 == log_abuse(db1, user_id, ip_address, failed_filter.filter_name,
                         failed_filter.severity, t)
        r == update_trust_score(db2, user_id, trust_delta, t)
    IN [db |-> r.db,
        decision |-> FilteringDecision(FALSE, failed_filter.reason, failed_filter.severity,
                                       NULL, r.new_score, FALSE),
        evaluated |-> stages \o Names(content.results)]

\* run_all_checks: the stages in order, returning at the first that denies.
\* evaluated lists the stage checks and detectors called, in call order.
run_all_checks(db, user_id, ip_address, image, submission_data, t) ==
    LET sb == is_shadow_banned(db, user_id, t)
    IN IF sb.banned
       THEN [db |-> store_shadow_banned_submission(sb.db, user_id, ip_address,
                                                   submission_data),
             decision |-> FilteringDecision(FALSE, Reason("Shadow banned (hidden from user)", NULL),
                                            "critical", NULL, 100, TRUE),
             evaluated |-> <<"shadow_ban">>]
       ELSE
    LET bl == check_ip_blacklist(sb.db, ip_address, t)
    IN IF bl.blocked
       THEN [db |-> log_abuse(bl.db, user_id, ip_address, "ip_blacklisted", "critical", t),
             decision |-> FilteringDecision(FALSE, BlockedReason(bl.reason),
                                            "critical", NULL, 100, FALSE),
             evaluated |-> <<"shadow_ban", "ip_blacklist">>]
       ELSE
    LET trust_score == get_user_trust_score(bl.db, user_id)
        user_rate_result == check_user_rate_limit(bl.db, user_id, trust_score, t)
    IN IF ~user_rate_result.allowed
       THEN LET db1 == record_attempt(bl.db, user_id, ip_address, FALSE, t)
                db2 == log_abuse(db1, user_id, ip_address, "rate_limit", "low", t)
                r == update_trust_score(db2, user_id, TRUST_DELTAS.rate_limit, t)
            IN [db |-> r.db,
                decision |-> FilteringDecision(FALSE, user_rate_result.reason, "low",
                                               user_rate_result.retry_after,
                                               r.new_score, FALSE),
                evaluated |-> <<"shadow_ban", "ip_blacklist", "user_rate_limit">>]
       ELSE
    LET ip_rate_result == check_ip_rate_limit(bl.db, ip_address, FALSE, t)
    IN IF ~ip_rate_result.allowed
       THEN LET db1 == record_attempt(bl.db, user_id, ip_address, FALSE, t)
                db2 == log_abuse(db1, user_id, ip_address, "ip_rate_limit", "medium", t)
            IN [db |-> db2,
                decision |-> FilteringDecision(FALSE, ip_rate_result.reason, "medium",
                                               ip_rate_result.retry_after,
                                               trust_score, FALSE),
                evaluated |-> <<"shadow_ban", "ip_blacklist", "user_rate_limit",
                                "ip_rate_limit">>]
       ELSE
    LET content == run_all_filters(image)
        stages == <<"shadow_ban", "ip_blacklist", "user_rate_limit", "ip_rate_limit">>
    IN IF ~content.passed
       THEN ContentDenied(bl.db, user_id, ip_address, content, stages, t)
       ELSE \* step 9 (trust evaluation) only logs; then the attempt is recorded
            [db |-> record_attempt(bl.db, user_id, ip_address, TRUE, t),
             decision |-> FilteringDecision(TRUE, Reason("All checks passed", NULL), "low",
                                            NULL, trust_score, FALSE),
             evaluated |-> (stages \o Names(content.results)) \o <<"trust_evaluation">>]

\* --- calls into the Gate and the Limiter ---

\* violation counts an escalation may be given
ViolationCounts == {2, 11}

\* scores an admin sets to move a user into the low or the default tier
TierScores == {25, 50}

\* the submission stored as evidence
Submission == [image_url |-> TRUE, location |-> TRUE]

GateCall(op, args, result, db, stages) ==
    /\ steps < MaxTrustOps
    /\ steps' = steps + 1
    /\ request' = [op |-> op, args |-> args]
    /\ decision' = result
    /\ supabase' = db
    /\ evaluated' = stages
    /\ UNCHANGED <<now, gate_pc>>
    /\ UNCHANGED workerVars

Call_run_all_checks(user_id, ip_address, image, submission_data) ==
    LET r == run_all_checks(supabase, user_id, ip_address, image, submission_data, now)
    IN GateCall("run_all_checks", <<user_id, ip_address, image, submission_data>>,
                r.decision, r.db, r.evaluated)

Call_escalate_ip_ban(ip_address, violation_count) ==
    GateCall("escalate_ip_ban", <<ip_address, violation_count>>, [none |-> TRUE],
             escalate_ip_ban(supabase, ip_address, "abuse", violation_count, now), <<>>)

\* --- Gate runs of several server processes on the one store ---

\* the image every detector passes
CleanImage == Image(FALSE, FALSE, FALSE, FALSE)

\* run_all_checks in process p up to its last check (lines 84-264): on a
\* denial the run ends here, with its writes; when every check passes (they
\* only read) the run goes on to record the attempt
GateChecks(p, user_id, ip_address) ==
    /\ gate_pc[p] = IdleRun
    /\ steps < MaxTrustOps
    /\ steps' = steps + 1
    /\ LET r == run_all_checks(supabase, user_id, ip_address, CleanImage, Submission, now)
       IN /\ request' = [op |-> "run_all_checks",
                         args |-> <<user_id, ip_address, CleanImage, Submission>>]
          /\ evaluated' = r.evaluated
          /\ IF r.decision.allowed
             THEN /\ gate_pc' = [gate_pc EXCEPT ![p] =
                                  [pc |-> "checked", trust_score |-> r.decision.trust_score]]
                  /\ UNCHANGED <<supabase, decision>>
             ELSE /\ supabase' = r.db
                  /\ decision' = r.decision
                  /\ UNCHANGED gate_pc
    /\ UNCHANGED now
    /\ UNCHANGED workerVars

\* run_all_checks in process p, line 270 to the return: record the
\* successful attempt, allow
GateRecords(p, user_id, ip_address) ==
    /\ gate_pc[p].pc = "checked"
    /\ gate_pc' = [gate_pc EXCEPT ![p] = IdleRun]
    /\ supabase' = record_attempt(supabase, user_id, ip_address, TRUE, now)
    /\ decision' = FilteringDecision(TRUE, Reason("All checks passed", NULL), "low", NULL,
                                     gate_pc[p].trust_score, FALSE)
    /\ UNCHANGED <<now, request, evaluated, steps>>
    /\ UNCHANGED workerVars

(* ---------------------------- specification ---------------------------- *)

InitWorker ==
    /\ issues = [i \in IssueIds |-> NoRow]
    /\ issues_verified = [i \in IssueIds |-> <<>>]
    /\ issues_rejected = [i \in IssueIds |-> <<>>]
    /\ verification_audit_log = {}
    /\ effects = [i \in IssueIds |-> NoEffects]
    /\ processing_lock = {}
    /\ in_flight = [i \in IssueIds |-> NoPass]
    /\ ready = <<>>
    /\ worker_pc = "sleep"
    /\ pending_issues = <<>>
    /\ spawned = 0
    /\ polls = 0

NewUser == [trust_score |-> 100, is_shadow_banned |-> FALSE, banned_until |-> NULL]

EmptyStore ==
    [users |-> [u \in Users |-> NewUser],
     abuse_logs |-> NoRows,
     user_rate_limit_tracking |-> NoRows,
     ip_rate_limit_tracking |-> NoRows,
     ip_blacklist |-> NoRows,
     ip_blacklist_more |-> <<>>,
     shadow_banned_submissions |-> NoRows,
     image_hashes |-> NoRows,
     bot_detection_patterns |-> NoRows,
     unavailable |-> {}]

InitLedger ==
    /\ supabase = EmptyStore
    /\ now = 0
    /\ request = [op |-> "none", args |-> <<>>]
    /\ decision = [none |-> TRUE]
    /\ evaluated = <<>>
    /\ steps = 0
    /\ gate_pc = [p \in Procs |-> IdleRun]

Init == InitWorker /\ InitLedger

WorkerNext ==
    \/ TimerFires
    \/ \E i \in IssueIds : IoCompletes(i)
    \/ process_pending_issues
    \/ LoopItem
    \/ \E i \in IssueIds : verify_issue_async(i)
    \/ \E i \in IssueIds : AiReturns(i)
    \/ \E i \in IssueIds : RoutingReturns(i)
    \/ \E p \in Payloads : create_issue(AnyReporter, p)
    \/ admin_process_pending_issues
    \/ \E i \in IssueIds : manually_process_issue(i)

Next == WorkerNext

Spec == Init /\ [][Next]_vars

\* the automatic passes alone, on a store whose inserts succeed: the polling
\* loop and the verify_issue_async tasks queued by issue creation and by the
\* batch endpoint; no admin retrigger
AutoNext ==
    \/ TimerFires
    \/ \E i \in IssueIds : IoCompletes(i)
    \/ process_pending_issues
    \/ LoopItemWith(Reliable)
    \/ \E i \in IssueIds : verify_issue_async_with(i, Reliable)
    \/ \E i \in IssueIds : AiReturnsWith(i, Reliable)
    \/ \E i \in IssueIds : RoutingReturns(i)
    \/ \E p \in Payloads : create_issue(AnyReporter, p)
    \/ admin_process_pending_issues

SpecAuto == Init /\ [][AutoNext]_vars

\* the automatic passes, with classifier calls that may raise
RaiseNext ==
    \/ AutoNext
    \/ \E i \in IssueIds : AiRaises(i)

SpecRaise == Init /\ [][RaiseNext]_vars

\* the worker together with the Ledger banning the reporter
BanNext ==
    \/ AutoNext
    \/ Call_shadow_ban_user(AnyReporter, NULL)

SpecBan == Init /\ [][BanNext]_vars

\* the Ledger's trust and ban operations and the admin's score edits
TrustNext ==
    \/ \E u \in Identities, name \in DeltaNames : Call_update_trust_score(u, name)
    \/ \E u \in Users, d \in Durations : Call_shadow_ban_user(u, d)
    \/ \E u \in Identities : Call_is_shadow_banned(u)
    \/ \E u \in Users, n \in AdminScores : update_user_trust_score(u, n)
    \/ \E u \in Users : reset_user_penalties(u)
    \/ Tick

SpecTrust == Init /\ [][TrustNext]_vars

\* the Gate on a running system: reporters who already submitted
\* successfully within the current hour
PriorCounts == {0, 10}

\* n successful attempts of every user, all from the first address
Traffic(n) ==
    LET active == IF n > 0 THEN Users ELSE {}
    IN [EmptyStore EXCEPT
          !.user_rate_limit_tracking =
              [r \in {[user_id |-> u, success |-> TRUE, timestamp |-> 0] : u \in active}
                  |-> n],
          !.ip_rate_limit_tracking =
              [r \in {[ip_address |-> 1, success |-> TRUE, user_id |-> u, timestamp |-> 0]
                         : u \in active}
                  |-> n]]

InitGate ==
    /\ InitWorker
    /\ \E n \in PriorCounts : supabase = Traffic(n)
    /\ now = 0
    /\ request = [op |-> "none", args |-> <<>>]
    /\ decision = [none |-> TRUE]
    /\ evaluated = <<>>
    /\ steps = 0
    /\ gate_pc = [p \in Procs |-> IdleRun]

GateNext ==
    \/ \E ip \in Ips, image \in Images :
          Call_run_all_checks(AnyReporter, ip, image, Submission)
    \/ \E ip \in Ips, n \in ViolationCounts : Call_escalate_ip_ban(ip, n)
    \/ \E d \in Durations : Call_shadow_ban_user(AnyReporter, d)
    \/ \E n \in TierScores : update_user_trust_score(AnyReporter, n)
    \/ Tick

SpecGate == InitGate /\ [][GateNext]_vars

\* the Limiter's user check on a running system: the reporter's attempts of
\* the current hour (successful and failed), successful attempts made 22
\* hours ago, and another user's attempts
HourCounts == {0, 2, 3, 9, 10, 19, 20}
DayCounts == {0, 8, 48, 98}
FailedCounts == {0, 5}
OthersCount == 20
\* trust scores at and around the tier limits
TrustInputs == {10, 29, 30, 79, 80, 100}

Attempts(u, h, d, f) ==
    LET rows == (IF h > 0 THEN {[user_id |-> u, success |-> TRUE, timestamp |-> 0]} ELSE {})
                \cup (IF d > 0 THEN {[user_id |-> u, success |-> TRUE, timestamp |-> 0 - 22]}
                      ELSE {})
                \cup (IF f > 0 THEN {[user_id |-> u, success |-> FALSE, timestamp |-> 0]}
                      ELSE {})
                \cup {[user_id |-> o, success |-> TRUE, timestamp |-> 0] : o \in Users \ {u}}
    IN [r \in rows |-> IF r.user_id # u THEN OthersCount
                       ELSE IF ~r.success THEN f
                       ELSE IF r.timestamp = 0 THEN h ELSE d]

InitLimit ==
    /\ InitWorker
    /\ \E h \in HourCounts, d \in DayCounts, f \in FailedCounts :
          supabase = [EmptyStore EXCEPT
                        !.user_rate_limit_tracking = Attempts(AnyReporter, h, d, f)]
    /\ now = 0
    /\ request = [op |-> "none", args |-> <<>>]
    /\ decision = [none |-> TRUE]
    /\ evaluated = <<>>
    /\ steps = 0
    /\ gate_pc = [p \in Procs |-> IdleRun]

Call_check_user_rate_limit(user_id, trust_score) ==
    GateCall("check_user_rate_limit", <<user_id, trust_score>>,
             check_user_rate_limit(supabase, user_id, trust_score, now), supabase, <<>>)

LimitNext ==
    \/ \E trust_score \in TrustInputs : Call_check_user_rate_limit(AnyReporter, trust_score)
    \/ Tick

SpecLimit == InitLimit /\ [][LimitNext]_vars

\* escalations of the ban of an address: violation counts on every step of
\* the ladder and at its limits
LadderCounts == {1, 2, 3, 4, 5, 6, 8, 10, 11, 15}

Call_check_ip_blacklist(ip_address) ==
    LET r == check_ip_blacklist(supabase, ip_address, now)
    IN GateCall("check_ip_blacklist", <<ip_address>>,
                [blocked |-> r.blocked, reason |-> r.reason], r.db, <<>>)

LadderNext ==
    \/ \E ip \in Ips, n \in LadderCounts : Call_escalate_ip_ban(ip, n)
    \/ \E ip \in Ips : Call_check_ip_blacklist(ip)
    \/ Tick

SpecLadder == Init /\ [][LadderNext]_vars

\* uploads of one fingerprint: every uploader has uploaded it not at all,
\* once or twice within the current hour, or once five hours ago
Uploaders == 1..NumUploaders
Fingerprint == 1
UploadHistories == {"none", "once", "twice", "old"}

Uploads(history) ==
    LET rows == {[user_id |-> u, perceptual_hash |-> Fingerprint,
                  uploaded_at |-> IF history[u] = "old" THEN 0 - 5 ELSE 0]
                    : u \in {x \in Uploaders : history[x] # "none"}}
    IN [r \in rows |-> IF history[r.user_id] = "twice" THEN 2 ELSE 1]

InitAttack ==
    /\ InitWorker
    /\ \E history \in [Uploaders -> UploadHistories] :
          supabase = [EmptyStore EXCEPT !.image_hashes = Uploads(history)]
    /\ now = 0
    /\ request = [op |-> "none", args |-> <<>>]
    /\ decision = [none |-> TRUE]
    /\ evaluated = <<>>
    /\ steps = 0
    /\ gate_pc = [p \in Procs |-> IdleRun]

Call_detect_coordinated_attack(image_hash) ==
    LET r == detect_coordinated_attack(supabase, image_hash, Uploaders, Ips, now)
    IN GateCall("detect_coordinated_attack", <<image_hash>>, [attack |-> r.attack],
                r.db, <<>>)

AttackNext ==
    \/ Call_detect_coordinated_attack(Fingerprint)
    \/ Tick

SpecAttack == InitAttack /\ [][AttackNext]_vars

\* the passes queued by issue creation and by the batch endpoint, with
\* compensating actions that may fail: the points call, the success notice,
\* the routing
HooksNext ==
    \/ \E i \in IssueIds : IoCompletes(i)
    \/ \E i \in IssueIds : verify_issue_async_with(i, HookFaults)
    \/ \E i \in IssueIds : AiReturnsWith(i, HookFaults)
    \/ \E i \in IssueIds : RoutingReturnsWith(i, BOOLEAN)
    \/ \E p \in Payloads : create_issue(AnyReporter, p)
    \/ admin_process_pending_issues

SpecHooks == Init /\ [][HooksNext]_vars

\* the passes queued by issue creation, with a classifier that may give any
\* verdict and record inserts that may return no row
VerdictNext ==
    \/ \E i \in IssueIds : IoCompletes(i)
    \/ \E i \in IssueIds : verify_issue_async_with(i, AnyVerdict)
    \/ \E i \in IssueIds : AiReturnsWith(i, AnyVerdict)
    \/ \E i \in IssueIds : RoutingReturns(i)
    \/ \E p \in Payloads : create_issue(AnyReporter, p)

SpecVerdict == Init /\ [][VerdictNext]_vars

\* the automatic passes, and the application shutting down
ShutdownNext ==
    \/ AutoNext
    \/ lifespan_shutdown

SpecShutdown == Init /\ [][ShutdownNext]_vars

\* concurrent submissions of one reporter of the high tier through several
\* server processes: the successful attempts already made in the current
\* hour, below and at the hourly limit
RacePriors == {0, 18, 19, 20}

InitRace ==
    /\ InitWorker
    /\ \E n \in RacePriors :
          supabase = [EmptyStore EXCEPT
                        !.user_rate_limit_tracking = Attempts(AnyReporter, n, 0, 0)]
    /\ now = 0
    /\ request = [op |-> "none", args |-> <<>>]
    /\ decision = [none |-> TRUE]
    /\ evaluated = <<>>
    /\ steps = 0
    /\ gate_pc = [p \in Procs |-> IdleRun]

RaceNext ==
    \/ \E p \in Procs, ip \in Ips : GateChecks(p, AnyReporter, ip)
    \/ \E p \in Procs, ip \in Ips : GateRecords(p, AnyReporter, ip)
    \/ Tick

SpecRace == InitRace /\ [][RaceNext]_vars

\* the passes queued by issue creation and by the batch endpoint, with
\* status updates that may raise
StatusNext ==
    \/ \E i \in IssueIds : IoCompletes(i)
    \/ \E i \in IssueIds : verify_issue_async_with(i, StatusFaults)
    \/ \E i \in IssueIds : AiReturnsWith(i, StatusFaults)
    \/ \E i \in IssueIds : RoutingReturns(i)
    \/ \E p \in Payloads : create_issue(AnyReporter, p)
    \/ admin_process_pending_issues

SpecStatus == Init /\ [][StatusNext]_vars

\* the Limiter's address check on a running system: the address's successful
\* and rejected attempts of the current hour and of 22 hours ago
IpHourSuccesses == {0, 19, 20}
IpDaySuccesses == {0, 30, 80}
IpHourRejections == {0, 9, 10}
IpDayRejections == {0, 20, 30}

IpAttempts(ip, hs, ds, hf, df) ==
    LET row(success, t) == [ip_address |-> ip, success |-> success,
                            user_id |-> AnyReporter, timestamp |-> t]
        n == (row(TRUE, 0) :> hs) @@ (row(TRUE, 0 - 22) :> ds)
             @@ (row(FALSE, 0) :> hf) @@ (row(FALSE, 0 - 22) :> df)
    IN [r \in {x \in DOMAIN n : n[x] > 0} |-> n[r]]

InitIpLimit ==
    /\ InitWorker
    /\ \E hs \in IpHourSuccesses, ds \in IpDaySuccesses,
          hf \in IpHourRejections, df \in IpDayRejections :
          supabase = [EmptyStore EXCEPT
                        !.ip_rate_limit_tracking =
                            IpAttempts(CHOOSE ip \in Ips : TRUE, hs, ds, hf, df)]
    /\ now = 0
    /\ request = [op |-> "none", args |-> <<>>]
    /\ decision = [none |-> TRUE]
    /\ evaluated = <<>>
    /\ steps = 0
    /\ gate_pc = [p \in Procs |-> IdleRun]

Call_check_ip_rate_limit(ip_address, check_rejections) ==
    GateCall("check_ip_rate_limit", <<ip_address, check_rejections>>,
             check_ip_rate_limit(supabase, ip_address, check_rejections, now),
             supabase, <<>>)

IpLimitNext ==
    \/ \E ip \in Ips, check_rejections \in BOOLEAN :
          Call_check_ip_rate_limit(ip, check_rejections)
    \/ Tick

SpecIpLimit == InitIpLimit /\ [][IpLimitNext]_vars

\* the Ledger's abuse log on a running system: the reporter's entries of the
\* current hour and of 23 hours ago (fewer than 5 together: the reporter is
\* not banned), and the entries another, banned, user made from the same
\* address
AbuseHistories == {<<0, 0>>, <<3, 0>>, <<4, 0>>, <<2, 2>>}
OthersEntries == {0, 8, 9}
OtherUser == CHOOSE u \in Users : u # AnyReporter
\* violations as the Gate logs them
ViolationSamples == {<<"nsfw", "high">>, <<"rate_limit", "low">>}

AbuseLog(ip, recent, old, others) ==
    LET row(u, t) == [user_id |-> u, ip_address |-> ip, violation_type |-> "duplicate",
                      severity |-> "medium", timestamp |-> t]
        n == (row(AnyReporter, 0) :> recent) @@ (row(AnyReporter, 0 - 23) :> old)
             @@ (row(OtherUser, 0) :> others)
    IN [r \in {x \in DOMAIN n : n[x] > 0} |-> n[r]]

InitAbuse ==
    /\ InitWorker
    /\ \E h \in AbuseHistories, k \in OthersEntries :
          supabase = [EmptyStore EXCEPT
                        !.abuse_logs = AbuseLog(CHOOSE ip \in Ips : TRUE, h[1], h[2], k),
                        !.users[OtherUser].is_shadow_banned =
                            k >= SHADOW_BAN_VIOLATION_THRESHOLD]
    /\ now = 0
    /\ request = [op |-> "none", args |-> <<>>]
    /\ decision = [none |-> TRUE]
    /\ evaluated = <<>>
    /\ steps = 0
    /\ gate_pc = [p \in Procs |-> IdleRun]

Call_log_abuse(user_id, ip_address, violation) ==
    LedgerCall("log_abuse", <<user_id, ip_address, violation[1], violation[2]>>,
               [none |-> TRUE],
               log_abuse(supabase, user_id, ip_address, violation[1], violation[2], now))

AbuseNext ==
    \/ \E ip \in Ips, v \in ViolationSamples : Call_log_abuse(AnyReporter, ip, v)
    \/ Tick

SpecAbuse == InitAbuse /\ [][AbuseNext]_vars

\* Gate runs of a reporter whose score an admin has set low, down to the
\* last points
LowScores == {2, 25}

RateDenyNext ==
    \/ \E ip \in Ips : Call_run_all_checks(AnyReporter, ip, CleanImage, Submission)
    \/ \E n \in LowScores : update_user_trust_score(AnyReporter, n)
    \/ Tick

SpecRateDeny == InitGate /\ [][RateDenyNext]_vars

\* --- Gate runs while parts of the store or a detector raise ---

\* the tables whose outage a stage of the Gate meets
LookupTables == {"users", "ip_blacklist", "user_rate_limit_tracking",
                 "ip_rate_limit_tracking"}

\* the outages tried: none, one table, all of them
Outages == {{}} \cup {{table} : table \in LookupTables} \cup {LookupTables}

\* the image every detector would reject, with the detectors that raise on it
RaisingImages ==
    {[Image(TRUE, TRUE, TRUE, TRUE) EXCEPT !.raises = d] :
        d \in {{"nsfw"}, {"nsfw", "duplicate"}, {"nsfw", "duplicate", "ocr"},
               {"nsfw", "duplicate", "ocr", "garbage"}}}

\* an address of a client
AnyIp == CHOOSE ip \in Ips : TRUE

\* tables of the store go down or come back
StoreOutage(tables) ==
    /\ tables # supabase.unavailable
    /\ LedgerCall("outage", <<tables>>, [none |-> TRUE],
                  [supabase EXCEPT !.unavailable = tables])

\* the store after some traffic, with or without a permanent ban on the
\* addresses and a shadow ban on the reporter, in any of the outages
InitOutage ==
    /\ InitWorker
    /\ \E n \in PriorCounts, ip_banned \in BOOLEAN, user_banned \in BOOLEAN,
          tables \in Outages :
          LET db1 == IF ip_banned
                     THEN escalate_ip_ban(Traffic(n), AnyIp, "abuse", 11, 0)
                     ELSE Traffic(n)
              db2 == IF user_banned THEN shadow_ban_user(db1, AnyReporter, NULL, 0)
                     ELSE db1
          IN supabase = [db2 EXCEPT !.unavailable = tables]
    /\ now = 0
    /\ request = [op |-> "none", args |-> <<>>]
    /\ decision = [none |-> TRUE]
    /\ evaluated = <<>>
    /\ steps = 0
    /\ gate_pc = [p \in Procs |-> IdleRun]

OutageNext ==
    \/ \E ip \in Ips, image \in {CleanImage} \cup RaisingImages :
          Call_run_all_checks(AnyReporter, ip, image, Submission)
    \/ \E tables \in Outages : StoreOutage(tables)
    \/ \E n \in TierScores : update_user_trust_score(AnyReporter, n)
    \/ Tick

SpecOutage == InitOutage /\ [][OutageNext]_vars

(* ------------------------------ classifier ----------------------------- *)

\* settings.AI_MAX_RETRIES
AI_MAX_RETRIES == 3

\* what one classifier call gives: content that parses into a verdict,
\* content that does not, or an exception with its type and whether its
\* message holds "quota"
Parsed(verdict) == [kind |-> "verdict", verdict |-> verdict]
Unparsable == [kind |-> "unparsable"]
Raised(error_type, quota_in_message) ==
    [kind |-> "error", error_type |-> error_type, quota_in_message |-> quota_in_message]

\* the test that takes no error for a quota error
IsQuotaError_never(reply) == FALSE

\* lines 279-282: the errors that are not retried
IsQuotaError(reply) ==
    /\ reply.kind = "error"
    /\ \/ reply.error_type \in {"RateLimitError", "InsufficientQuotaError"}
       \/ reply.quota_in_message

\* line 211: retries = max_retries or settings.AI_MAX_RETRIES (None and 0
\* both give the setting)
Retries(max_retries) ==
    IF max_retries = NULL \/ max_retries = 0 THEN AI_MAX_RETRIES ELSE max_retries

\* lines 221-292: for attempt in range(1, retries + 1), one classifier call
\* per iteration; replies[k] is what the k-th call gives
RECURSIVE AttemptLoop(_, _, _)
AttemptLoop(replies, attempt, retries) ==
    IF attempt > retries THEN [verdict |-> NULL, calls |-> attempt - 1]
    ELSE LET reply == replies[attempt]
         IN IF reply.kind = "verdict"
            THEN [verdict |-> reply.verdict, calls |-> attempt]
            ELSE IF IsQuotaError(reply)
            THEN [verdict |-> NULL, calls |-> attempt]
            ELSE IF attempt < retries
            THEN AttemptLoop(replies, attempt + 1, retries)
            ELSE [verdict |-> NULL, calls |-> attempt]

\* verify_issue_with_ai: None without a client, an image URL or a downloaded
\* image, else the attempt loop
verify_issue_with_ai(client, image_url, downloaded, replies, max_retries) ==
    IF ~client \/ ~image_url \/ ~downloaded
    THEN [verdict |-> NULL, calls |-> 0]
    ELSE AttemptLoop(replies, 1, Retries(max_retries))

\* the budgets a caller passes (None: the setting)
Budgets == {NULL, 0, 1, 2}

\* what the classifier may give on a call
Replies == {Parsed(Verdict(FALSE, FALSE, TRUE)), Parsed(Verdict(TRUE, FALSE, FALSE)),
            Unparsable, Raised("APITimeoutError", FALSE),
            Raised("APIError", TRUE), Raised("RateLimitError", FALSE)}

\* one invocation; evaluated lists the replies of the calls it made
Call_verify_issue_with_ai(client, image_url, downloaded, replies, max_retries) ==
    LET r == verify_issue_with_ai(client, image_url, downloaded, replies, max_retries)
    IN GateCall("verify_issue_with_ai",
                <<client, image_url, downloaded, replies, max_retries>>,
                [verdict |-> r.verdict], supabase, SubSeq(replies, 1, r.calls))

ClassifierNext ==
    \/ \E replies \in [1..AI_MAX_RETRIES -> Replies], max_retries \in Budgets :
          Call_verify_issue_with_ai(TRUE, TRUE, TRUE, replies, max_retries)
    \/ \E client \in BOOLEAN, image_url \in BOOLEAN, downloaded \in BOOLEAN,
          max_retries \in Budgets :
          Call_verify_issue_with_ai(client, image_url, downloaded,
                                    [k \in 1..AI_MAX_RETRIES |-> Unparsable], max_retries)

SpecClassifier == Init /\ [][ClassifierNext]_vars

\* --- the polling loop left to itself ---

\* asyncio.sleep of the polling loop elapses, however many batches the loop
\* has selected before
TimerFiresAgain ==
    /\ worker_pc = "sleep"
    /\ ~InReady(Wake)
    /\ ready' = Append(ready, Wake)
    /\ UNCHANGED <<issues, issues_verified, issues_rejected, verification_audit_log,
                   effects, processing_lock, in_flight, worker_pc, pending_issues,
                   spawned, polls, ledgerVars>>

\* what may happen to a pass of the loop: a failed record insert, a failed
\* status update
PassFaults == InsertFaults \cup StatusFaults

\* issue creation with its verification task and the polling loop; no admin
\* retrigger
PollNext ==
    \/ TimerFiresAgain
    \/ \E i \in IssueIds : IoCompletes(i)
    \/ process_pending_issues
    \/ LoopItemWith(PassFaults)
    \/ \E i \in IssueIds : verify_issue_async_with(i, PassFaults)
    \/ \E i \in IssueIds : AiReturnsWith(i, PassFaults)
    \/ \E i \in IssueIds : AiRaises(i)
    \/ \E i \in IssueIds : RoutingReturns(i)
    \/ \E p \in Payloads : create_issue(AnyReporter, p)

\* the event loop runs every callback that is ready, the timer of the loop
\* fires, every classifier call and routing thread comes back
PollFairness ==
    /\ WF_vars(TimerFiresAgain)
    /\ WF_vars(process_pending_issues)
    /\ WF_vars(LoopItemWith(PassFaults))
    /\ \A i \in IssueIds :
          /\ WF_vars(IoCompletes(i))
          /\ WF_vars(verify_issue_async_with(i, PassFaults))
          /\ WF_vars(AiReturnsWith(i, PassFaults) \/ AiRaises(i))
          /\ WF_vars(RoutingReturns(i))

SpecPoll == Init /\ [][PollNext]_vars /\ PollFairness

\* Gate runs of a reporter whom an admin has moved within the high tier
HighScores == {85, 95}

IpDenyNext ==
    \/ \E ip \in Ips, image \in Images :
          Call_run_all_checks(AnyReporter, ip, image, Submission)
    \/ \E n \in HighScores : update_user_trust_score(AnyReporter, n)
    \/ Tick

SpecIpDeny == InitGate /\ [][IpDenyNext]_vars

\* the automatic passes on a store that may fail the retry-count increment
IncrNext ==
    \/ TimerFires
    \/ \E i \in IssueIds : IoCompletes(i)
    \/ process_pending_issues
    \/ LoopItemWith(IncrementFaults)
    \/ \E i \in IssueIds : verify_issue_async_with(i, IncrementFaults)
    \/ \E i \in IssueIds : AiReturnsWith(i, Reliable)
    \/ \E i \in IssueIds : RoutingReturns(i)
    \/ \E p \in Payloads : create_issue(AnyReporter, p)

SpecIncr == Init /\ [][IncrNext]_vars

(* --------------------------- recorded attempts -------------------------- *)

Call_record_attempt(user_id, ip_address, success) ==
    GateCall("record_attempt", <<user_id, ip_address, success>>, [none |-> TRUE],
             record_attempt(supabase, user_id, ip_address, success, now), <<>>)

\* attempts recorded while the table of the addresses goes down and comes
\* back
RecordNext ==
    \/ \E u \in Users, ip \in Ips, success \in BOOLEAN :
          Call_record_attempt(u, ip, success)
    \/ \E tables \in {{}, {"ip_rate_limit_tracking"}} : StoreOutage(tables)
    \/ Tick

SpecRecord == InitGate /\ [][RecordNext]_vars

(* ------------- escalations of several server processes ----------------- *)

\* escalate_ip_ban in process p, lines 283-295: the ban duration from the
\* clock, then the select of the address's rows
EscalateSelects(p, ip_address, violation_count) ==
    /\ gate_pc[p] = IdleRun
    /\ steps < MaxTrustOps
    /\ steps' = steps + 1
    /\ gate_pc' = [gate_pc EXCEPT ![p] =
                      [pc |-> "selected", trust_score |-> -1,
                       ip_address |-> ip_address,
                       violation_count |-> violation_count,
                       existing |-> ip_address \in DOMAIN supabase.ip_blacklist,
                       t |-> now]]
    /\ UNCHANGED <<supabase, now, request, decision, evaluated>>
    /\ UNCHANGED workerVars

\* escalate_ip_ban in process p, lines 297-312: the update of the rows of the
\* address when the select returned one (of no row, when they are gone by
\* now), the insert of a new row when it returned none
EscalateWrites(p) ==
    /\ gate_pc[p].pc = "selected"
    /\ LET run == gate_pc[p]
           present == run.ip_address \in DOMAIN supabase.ip_blacklist
           written == escalate_ip_ban(supabase, run.ip_address, "abuse",
                                      run.violation_count, run.t)
           ban == escalate_ip_ban(EmptyStore, run.ip_address, "abuse",
                                  run.violation_count, run.t).ip_blacklist[run.ip_address]
       IN /\ supabase' =
                 IF run.existing = present THEN written
                 ELSE IF run.existing THEN supabase
                 ELSE [supabase EXCEPT !.ip_blacklist_more =
                          Append(@, BanRow(run.ip_address, ban))]
          /\ request' = [op |-> "escalate_ip_ban",
                         args |-> <<run.ip_address, run.violation_count, run.t>>]
    /\ gate_pc' = [gate_pc EXCEPT ![p] = IdleRun]
    /\ decision' = [none |-> TRUE]
    /\ UNCHANGED <<now, evaluated, steps>>
    /\ UNCHANGED workerVars

\* escalations in the server processes, lookups, the clock
EscalateNext ==
    \/ \E p \in Procs, ip \in Ips, n \in LadderCounts : EscalateSelects(p, ip, n)
    \/ \E p \in Procs : EscalateWrites(p)
    \/ \E ip \in Ips : Call_check_ip_blacklist(ip)
    \/ Tick

SpecEscalate == Init /\ [][EscalateNext]_vars

\* the automatic passes with every way out of process_issue: a verdict, no
\* verdict, the retry cap, an exception of the classifier call, the
\* cancellation of the polling loop at shutdown
ExitsNext ==
    \/ RaiseNext
    \/ lifespan_shutdown

SpecExits == Init /\ [][ExitsNext]_vars

(* ------------------------------- claims -------------------------------- *)

Records(i) == Len(issues_verified[i]) + Len(issues_rejected[i])
Compensations(i) == effects[i].points + effects[i].penalty
\* the audit log holds an entry of status st for issue i
Audited(log, i, st) == \E r \in log : r.issue_id = i /\ r.status = st

\* C1: however the polling loop's batch and the direct verify_issue_async
\* calls interleave on a submission, it gets at most one verified-or-rejected
\* record and at most one reward/penalty application, and exactly one of each
\* once it is verified or rejected.
C1_ExactlyOnce ==
    \A i \in IssueIds :
        /\ Records(i) <= 1
        /\ Compensations(i) <= 1
        /\ issues[i].verification_status \in {"verified", "rejected"}
              => Records(i) = 1 /\ Compensations(i) = 1

\* C2: retry_count is at most 3 in every reachable state.
C2_RetryCountAtMost3 ==
    \A i \in IssueIds : issues[i].retry_count <= MAX_RETRIES

C4_TerminalForAutomation ==
    [][\A i \in IssueIds :
          (issues[i].retry_count >= MAX_RETRIES /\ issues'[i].retry_count # 0)
          => /\ issues'[i] = issues[i]
             /\ issues_verified'[i] = issues_verified[i]
             /\ issues_rejected'[i] = issues_rejected[i]
             /\ effects'[i] = effects[i]
             /\ (polls' # polls =>
                    \A k \in 1..Len(pending_issues') : pending_issues'[k] # i)]_vars

\* C9: no step selects into the worker's batch, or starts a pass on, a
\* submission whose reporter is shadow-banned.
C9_BannedNeverProcessed ==
    [][\A i \in IssueIds :
          (issues'[i].verification_status # "absent"
             /\ supabase.users[issues'[i].reported_by].is_shadow_banned)
          => /\ issues'[i].retry_count <= issues[i].retry_count
             /\ (polls' # polls =>
                    \A k \in 1..Len(pending_issues') : pending_issues'[k] # i)]_vars

\* C5: every stored trust_score is an integer in [0,100], and an identity
\* without a row reads as 100.
C5_TrustScoreInRange ==
    /\ \A u \in Users : supabase.users[u].trust_score \in 0..100
    /\ \A u \in Users : get_user_trust_score(supabase, u) \in 0..100
    /\ get_user_trust_score(supabase, Stranger) = 100

\* C5 witness: update_trust_score has clamped a score at 0 and one at 100
C5_Witness ==
    /\ request.op = "update_trust_score"
    /\ \E u \in Users :
          /\ request.args[1] = u
          /\ supabase.users[u].trust_score \in {0, 100}
          /\ request.args[2] \in {-30, 5}

\* C6: whenever update_trust_score leaves a score of at most 20 (0 included)
\* the identity is shadow-banned after the call, and a ban that already
\* existed is left as it was.
C6_LowScoreBans ==
    [][\A u \in Users :
          (request'.op = "update_trust_score" /\ steps' # steps /\ request'.args[1] = u
             /\ supabase'.users[u].trust_score <= SHADOW_BAN_TRUST_THRESHOLD)
          => /\ supabase'.users[u].is_shadow_banned
             /\ supabase.users[u].is_shadow_banned
                   => supabase'.users[u].banned_until = supabase.users[u].banned_until]_vars

\* the ban of identity u is in force: flagged, and not a temporary ban that
\* has expired
BanInForce(u) ==
    /\ supabase.users[u].is_shadow_banned
    /\ (supabase.users[u].banned_until = NULL \/ now <= supabase.users[u].banned_until)

\* this step is a run of the Gate
GateRuns == request'.op = "run_all_checks" /\ steps' # steps

TrustScores(db) == [u \in Users |-> db.users[u].trust_score]

Successes(table) == Copies(table, {r \in DOMAIN table : r.success})

\* C7: a Gate run for an identity whose shadow ban is in force returns
\* allowed = false with is_shadow_banned = true, stores the payload as one
\* shadow-banned submission, leaves the abuse log, both rate-record tables,
\* the users and the blacklist as they were, and evaluates no stage after the
\* shadow-ban check.
C7_ShadowBanSilentDeny ==
    [][\A u \in Users :
          (GateRuns /\ request'.args[1] = u /\ BanInForce(u))
          => /\ decision'.allowed = FALSE
             /\ decision'.is_shadow_banned = TRUE
             /\ supabase'.shadow_banned_submissions =
                    Insert(supabase.shadow_banned_submissions,
                           [user_id |-> u, ip_address |-> request'.args[2],
                            submission_data |-> request'.args[4]])
             /\ supabase'.abuse_logs = supabase.abuse_logs
             /\ supabase'.user_rate_limit_tracking = supabase.user_rate_limit_tracking
             /\ supabase'.ip_rate_limit_tracking = supabase.ip_rate_limit_tracking
             /\ supabase'.users = supabase.users
             /\ supabase'.ip_blacklist = supabase.ip_blacklist
             /\ evaluated' = <<"shadow_ban">>]_vars

\* C7 witness: the Gate has silently denied a shadow-banned identity and
\* stored its submission
C7_Witness ==
    /\ request.op = "run_all_checks"
    /\ decision.is_shadow_banned
    /\ ~decision.allowed
    /\ supabase.users[request.args[1]].is_shadow_banned
    /\ Copies(supabase.shadow_banned_submissions, {r \in DOMAIN supabase.shadow_banned_submissions : r.user_id = request.args[1]}) >= 1

\* the stages of the Gate, in their order
StageOrder == <<"shadow_ban", "ip_blacklist", "user_rate_limit", "ip_rate_limit",
                "nsfw", "duplicate", "ocr", "garbage", "exif", "trust_evaluation">>

\* stage k denies the request (user, address, image), judged on the state
\* the run starts in
Denies(k, u, ip, image) ==
    CASE k = 1 -> is_shadow_banned(supabase, u, now).banned
      [] k = 2 -> check_ip_blacklist(supabase, ip, now).blocked
      [] k = 3 -> ~check_user_rate_limit(supabase, u,
                       get_user_trust_score(supabase, u), now).allowed
      [] k = 4 -> ~check_ip_rate_limit(supabase, ip, FALSE, now).allowed
      [] k = 5 -> image.nsfw
      [] k = 6 -> image.duplicate
      [] k = 7 -> image.ocr
      [] k = 8 -> image.garbage
      [] OTHER -> FALSE

\* the reason stage k gives when it denies
StageReason(k, u, ip, image) ==
    CASE k = 1 -> Reason("Shadow banned (hidden from user)", NULL)
      [] k = 2 -> BlockedReason(supabase.ip_blacklist[ip].reason)
      [] k = 3 -> check_user_rate_limit(supabase, u,
                       get_user_trust_score(supabase, u), now).reason
      [] k = 4 -> check_ip_rate_limit(supabase, ip, FALSE, now).reason
      [] k = 5 -> nsfw_check(image).reason
      [] k = 6 -> duplicate_check(image).reason
      [] k = 7 -> ocr_check(image).reason
      [] OTHER -> garbage_check(image).reason

\* k is the first stage that denies, 0 when none does
FirstDenying(k, u, ip, image) ==
    /\ \A j \in 1..(IF k = 0 THEN Len(StageOrder) ELSE k - 1) : ~Denies(j, u, ip, image)
    /\ k # 0 => Denies(k, u, ip, image)

\* C8: a Gate run evaluates the stages in the order shadow-ban, IP blacklist,
\* user rate limit, IP rate limit, content detectors, trust evaluation, up to
\* and including the first stage that denies and no further; it allows iff no
\* stage denies, the decision carries the reason of the first denying stage,
\* and no later stage leaves a trace: no successful attempt is recorded for a
\* denied request, a blacklist denial writes no rate record and changes no
\* trust score, an IP rate denial changes no trust score, and only the
\* shadow-ban stage stores a shadow-banned submission.
C8_StagesInOrderShortCircuit ==
    [][GateRuns =>
         LET u == request'.args[1]
             ip == request'.args[2]
             image == request'.args[3]
         IN \E k \in 0..Len(StageOrder) :
            /\ FirstDenying(k, u, ip, image)
            /\ evaluated' = SubSeq(StageOrder, 1, IF k = 0 THEN Len(StageOrder) ELSE k)
            /\ decision'.allowed = (k = 0)
            /\ k # 0 => decision'.reason = StageReason(k, u, ip, image)
            /\ k # 0 => /\ Successes(supabase'.user_rate_limit_tracking)
                             = Successes(supabase.user_rate_limit_tracking)
                        /\ Successes(supabase'.ip_rate_limit_tracking)
                             = Successes(supabase.ip_rate_limit_tracking)
            /\ k \in {1, 2} =>
                   /\ supabase'.user_rate_limit_tracking = supabase.user_rate_limit_tracking
                   /\ supabase'.ip_rate_limit_tracking = supabase.ip_rate_limit_tracking
            /\ k \in {1, 2, 4} => TrustScores(supabase') = TrustScores(supabase)
            /\ k # 1 => supabase'.shadow_banned_submissions
                            = supabase.shadow_banned_submissions]_vars

\* C8 witness: a request whose image every detector would reject has been
\* denied by the IP rate limit, after four stages
C8_Witness ==
    /\ request.op = "run_all_checks"
    /\ ~decision.allowed
    /\ request.args[3].nsfw
    /\ evaluated = SubSeq(StageOrder, 1, 4)
    /\ decision.reason.msg = "IP rate limit exceeded per hour"

\* C10: once the status is verified, rejected, failed or pending_manual,
\* exactly one verified-or-rejected record exists for the submission.
C10_ExactlyOneRecord ==
    \A i \in IssueIds :
        issues[i].verification_status \in {"verified", "rejected", "failed", "pending_manual"}
            => Records(i) = 1

(* ------------------------ claims C11 .. C20 ---------------------------- *)

FinalStatuses == {"verified", "rejected", "failed", "pending_manual"}

\* C11: verification_status only changes along pending -> processing ->
\* {verified, rejected, failed, pending_manual}: it is processing while a
\* pass is working on the item, every final status is entered from
\* processing, and no automatic pass moves a submission out of a final status.
C11_StatusStateMachine ==
    [][\A i \in IssueIds :
          /\ in_flight'[i] # NoPass => issues'[i].verification_status = "processing"
          /\ issues'[i].verification_status # issues[i].verification_status
                => \/ /\ issues[i].verification_status = "absent"
                      /\ issues'[i].verification_status = "pending"
                   \/ /\ issues[i].verification_status = "pending"
                      /\ issues'[i].verification_status = "processing"
                   \/ /\ issues[i].verification_status = "processing"
                      /\ issues'[i].verification_status \in FinalStatuses]_vars

\* the audit entries of issue i that carry the verdict v
VerdictEntries(log, i, v) == {r \in log : r.issue_id = i /\ r.ai_raw_response = {v}}

\* this step is the one in which a pass on issue i, pending so far, gets the
\* verdict v
VerdictStep(i, v) ==
    /\ issues[i].verification_status = "pending"
    /\ VerdictEntries(verification_audit_log, i, v) = {}
    /\ VerdictEntries(verification_audit_log', i, v) # {}

NotGenuine == Verdict(FALSE, FALSE, FALSE)

\* the pass that gets a not-genuine verdict creates the one rejected-record,
\* calls the penalty once, sends one notice and ends with status rejected
C12_RejectsOnce ==
    [][\A i \in IssueIds :
          VerdictStep(i, NotGenuine)
          => /\ issues_rejected'[i] = <<[rejection_reason |-> "not_genuine_civic_issue"]>>
             /\ issues_verified'[i] = <<>>
             /\ effects'[i].penalty = effects[i].penalty + 1
             /\ effects'[i].rejection_email = effects[i].rejection_email + 1
             /\ effects'[i].points = effects[i].points
             /\ issues'[i].verification_status = "rejected"
             /\ issues'[i].retry_count = issues[i].retry_count
             /\ in_flight'[i] = NoPass]_vars

\* C12: when the classifier returns a not-genuine verdict (not unsafe, not
\* screenshot) for a pending submission, the pass creates one rejected-record
\* with reason not_genuine_civic_issue, makes one penalty call, sends one
\* rejection notice and ends with status rejected; retry_count is not
\* incremented by the verdict step and never again afterwards.
C12_NotGenuineRejection ==
    /\ C12_RejectsOnce
    /\ [][\A i \in IssueIds :
             issues[i].verification_status = "rejected"
             => issues'[i].retry_count <= issues[i].retry_count]_vars

\* this step ends a pass on the pending issue i at the classifier call
\* without a verdict and without an exception
NoVerdictStep(i) ==
    /\ issues[i].verification_status = "pending"
    /\ in_flight[i].pc = "ai"
    /\ in_flight'[i] = NoPass
    /\ \A st \in {"verified", "rejected", "failed"} :
          ~Audited(verification_audit_log', i, st)

\* C13: a pass in which the classifier yields no verdict writes a pending
\* audit entry and leaves the submission pending (never failed), creates no
\* verified/rejected record, runs no compensating action, and the submission
\* is still selected by process_pending_issues as long as retry_count is
\* below 3.
C13_NoVerdictStaysPending ==
    [][\A i \in IssueIds :
          NoVerdictStep(i)
          => /\ Audited(verification_audit_log', i, "pending")
             /\ issues'[i] = issues[i]
             /\ issues'[i].verification_status = "pending"
             /\ issues_verified'[i] = issues_verified[i]
             /\ issues_rejected'[i] = issues_rejected[i]
             /\ effects'[i] = effects[i]
             /\ i \notin processing_lock'
             /\ (issues'[i].retry_count < MAX_RETRIES <=> i \in Eligible(issues'))]_vars

\* C13 witness: a submission left pending and eligible by a pass without a
\* verdict
C13_Witness ==
    \E i \in IssueIds :
        /\ issues[i].verification_status = "pending"
        /\ issues[i].retry_count \in 1..(MAX_RETRIES - 1)
        /\ Audited(verification_audit_log, i, "pending")
        /\ in_flight[i] = NoPass
        /\ i \in Eligible(issues)
        /\ Records(i) = 0
        /\ effects[i] = NoEffects

\* this step writes the first failed audit entry of issue i: an exception
\* has escaped a step of its pass
ExceptionStep(i) ==
    /\ ~Audited(verification_audit_log, i, "failed")
    /\ Audited(verification_audit_log', i, "failed")

\* C14: an exception escaping a step of process_issue sets the status to
\* failed and writes a failed audit entry carrying the error (no record, no
\* compensating action, guard released); a failed submission is not eligible
\* and the polling loop never selects it into a batch.
C14_ExceptionMarksFailed ==
    [][\A i \in IssueIds :
          /\ ExceptionStep(i)
             => /\ issues'[i].verification_status = "failed"
                /\ \E r \in verification_audit_log' :
                      r.issue_id = i /\ r.status = "failed" /\ r.error_message
                /\ issues_verified'[i] = issues_verified[i]
                /\ issues_rejected'[i] = issues_rejected[i]
                /\ effects'[i] = effects[i]
                /\ i \notin processing_lock'
          /\ issues[i].verification_status = "failed"
             => /\ i \notin Eligible(issues)
                /\ (polls' # polls =>
                       \A k \in 1..Len(pending_issues') : pending_issues'[k] # i)]_vars

\* C14 witness: a submission failed by an exception, and the polling loop at
\* work on a batch selected without it
C14_Witness ==
    \E i \in IssueIds :
        /\ issues[i].verification_status = "failed"
        /\ Audited(verification_audit_log, i, "failed")
        /\ Records(i) = 0
        /\ worker_pc = "item"
        /\ \A k \in 1..Len(pending_issues) : pending_issues[k] # i

\* the caps of the tier of a trust score: <<per hour, per day>>
TierCaps(trust_score) ==
    IF trust_score < 30 THEN <<3, 10>>
    ELSE IF trust_score >= 80 THEN <<20, 100>>
    ELSE <<10, 50>>

\* the identity's successful actions within the window that ends at time t
PriorSuccesses(db, user_id, t, window) ==
    Copies(db.user_rate_limit_tracking,
           {r \in DOMAIN db.user_rate_limit_tracking :
               r.user_id = user_id /\ r.success /\ r.timestamp > t - window})

\* C15: check_user_rate_limit(identity, trust_score) counts the identity's
\* prior successful actions in the sliding hour and day against the tier of
\* the trust score (below 30: 3 and 10; at least 80: 20 and 100; otherwise 10
\* and 50); it denies with retry_after 3600 when the hourly count has reached
\* the hourly cap, else denies with retry_after 86400 when the daily count has
\* reached the daily cap, else allows; trust 10 with 3 successes in the last
\* hour is denied with retry_after 3600.  The call writes nothing.
C15_UserRateLimitTiers ==
    [][(request'.op = "check_user_rate_limit" /\ steps' # steps) =>
         LET u == request'.args[1]
             trust_score == request'.args[2]
             hourly == PriorSuccesses(supabase, u, now, HOUR)
             daily == PriorSuccesses(supabase, u, now, DAY)
             caps == TierCaps(trust_score)
         IN /\ decision'.allowed = (hourly < caps[1] /\ daily < caps[2])
            /\ hourly >= caps[1] => decision'.retry_after = 3600
            /\ (hourly < caps[1] /\ daily >= caps[2]) => decision'.retry_after = 86400
            /\ decision'.allowed => decision'.retry_after = NULL
            /\ (trust_score = 10 /\ hourly = 3)
                  => ~decision'.allowed /\ decision'.retry_after = 3600
            /\ supabase' = supabase]_vars

\* C15 witness: a reporter of trust 10 with 3 successes in the last hour has
\* been denied with retry_after 3600
C15_Witness ==
    /\ request.op = "check_user_rate_limit"
    /\ request.args[2] = 10
    /\ PriorSuccesses(supabase, request.args[1], now, HOUR) = 3
    /\ ~decision.allowed
    /\ decision.retry_after = 3600

\* the duration the ladder gives a violation count, NULL for a permanent ban
LadderDuration(n) ==
    IF n \in 1..2 THEN HOUR
    ELSE IF n \in 3..5 THEN DAY
    ELSE IF n \in 6..10 THEN WEEK
    ELSE NULL

\* C16: escalate_ip_ban maps the violation count it is given to a ban
\* duration: 1-2 give 1 hour, 3-5 give 1 day, 6-10 give 7 days, more than 10
\* a permanent ban (banned_until null); so 2, 4, 8, 15 give 1h, 1d, 7d,
\* permanent; the stored ban record carries that count, and the bans of other
\* addresses are left alone.
C16_EscalationLadder ==
    [][(request'.op = "escalate_ip_ban" /\ steps' # steps) =>
         LET ip == request'.args[1]
             n == request'.args[2]
             ban == supabase'.ip_blacklist[ip]
             until(d) == IF d = NULL THEN NULL ELSE now + d
         IN /\ ip \in DOMAIN supabase'.ip_blacklist
            /\ ban.violation_count = n
            /\ ban.banned_until = until(LadderDuration(n))
            /\ n = 2 => ban.banned_until = now + 1
            /\ n = 4 => ban.banned_until = now + 24
            /\ n = 8 => ban.banned_until = now + 7 * 24
            /\ n = 15 => ban.banned_until = NULL
            /\ \A other \in DOMAIN supabase.ip_blacklist \ {ip} :
                  /\ other \in DOMAIN supabase'.ip_blacklist
                  /\ supabase'.ip_blacklist[other] = supabase.ip_blacklist[other]]_vars

\* C16 witness: an escalation at 15 violations, the second one served, has
\* left the address banned permanently
C16_Witness ==
    /\ request.op = "escalate_ip_ban"
    /\ request.args[2] = 15
    /\ steps = 2
    /\ supabase.ip_blacklist[request.args[1]].banned_until = NULL
    /\ supabase.ip_blacklist[request.args[1]].violation_count = 15

\* the distinct identities that uploaded the fingerprint within the hour
\* that ends at time t
RecentUploaders(db, image_hash, t) ==
    {r.user_id : r \in {x \in DOMAIN db.image_hashes :
                           x.perceptual_hash = image_hash /\ x.uploaded_at > t - HOUR}}

\* C17: detect_coordinated_attack returns true, and logs a bot-pattern
\* record, exactly when the fingerprint was uploaded by at least 3 distinct
\* identities within the last hour; repeated uploads by one identity count
\* once.
C17_CoordinatedAttack ==
    [][(request'.op = "detect_coordinated_attack" /\ steps' # steps) =>
         LET attack == Cardinality(RecentUploaders(supabase, request'.args[1], now)) >= 3
         IN /\ decision'.attack = attack
            /\ attack <=> supabase'.bot_detection_patterns # supabase.bot_detection_patterns
            /\ supabase'.image_hashes = supabase.image_hashes]_vars

\* this step accepts issue i: a verified-record is created
AcceptStep(i) == issues_verified'[i] # issues_verified[i]

\* this step is the return of the routing of issue i
RoutingStep(i) == in_flight[i].pc = "routing" /\ in_flight'[i] = NoPass

RejectionPredicates(v) ==
    <<[holds |-> v.is_nsfw, reason |-> "nsfw_content_detected"],
      [holds |-> v.is_screenshot, reason |-> "screenshot_or_meme_detected"],
      [holds |-> ~v.is_genuine, reason |-> "not_genuine_civic_issue"]>>

\* the reason of the first predicate that holds ("" when none does)
FirstReason(v) ==
    LET p == RejectionPredicates(v)
        true == {k \in 1..Len(p) : p[k].holds}
    IN IF true = {} THEN ""
       ELSE p[CHOOSE k \in true : \A j \in true : k <= j].reason

Applied(eff, i) ==
    <<eff[i].points, eff[i].penalty, eff[i].success_email, eff[i].rejection_email>>

\* C20: only pending items are processed: once the stored status of a
\* submission is verified, rejected or failed, no step (a stale batch entry,
\* verify_issue_async, the admin retrigger) changes its row, creates a record
\* for it or applies a compensating action for it.  Passes on one submission
\* never overlap (processing_lock), so the status a step finds is the status
\* the pass started with.
C20_OnlyPendingProcessed ==
    [][\A i \in IssueIds :
          issues[i].verification_status \in {"verified", "rejected", "failed"}
             => /\ issues'[i] = issues[i]
                /\ issues_verified'[i] = issues_verified[i]
                /\ issues_rejected'[i] = issues_rejected[i]
                /\ Applied(effects', i) = Applied(effects, i)]_vars

(* ------------------------ claims C21 .. C30 ---------------------------- *)

\* C21: shutdown is graceful: the worker task ends only when no pass of the
\* polling loop is in flight, so an item in flight when shutdown is
\* requested is finalized before the task ends and process_issue is never
\* interrupted between two of its steps.
C21_GracefulShutdown ==
    [][(worker_pc' = "cancelled" /\ worker_pc # "cancelled")
          => \A i \in IssueIds : in_flight[i].by # "loop"]_vars

\* the successful attempts of the user recorded in the hour that ends at s
SuccessesInHour(db, user_id, s) ==
    Copies(db.user_rate_limit_tracking,
           {r \in DOMAIN db.user_rate_limit_tracking :
               r.user_id = user_id /\ r.success /\ r.timestamp > s - HOUR /\ r.timestamp <= s})

\* C22: for an identity whose tier does not change, the successful attempts
\* recorded inside any one-hour window never exceed the tier's hourly cap,
\* however concurrent Gate runs for the identity interleave.
C22_HourlyCapUnderConcurrency ==
    \A s \in 0..MaxNow :
        SuccessesInHour(supabase, AnyReporter, s)
            <= get_user_limits(get_user_trust_score(supabase, AnyReporter)).max_per_hour

\* C23: in every state reachable through Worker operations a verified-record
\* of a submission exists only if its status is verified and a
\* rejected-record only if its status is rejected, also when the status
\* write fails.
C23_RecordsMatchStatus ==
    \A i \in IssueIds :
        /\ issues_verified[i] # <<>> => issues[i].verification_status = "verified"
        /\ issues_rejected[i] # <<>> => issues[i].verification_status = "rejected"

\* C24: within a pass the record is persisted first, then the status is
\* updated, and only then the final audit entry is written: a step that adds
\* an audit entry with status verified or rejected for a submission also
\* persists its record, so a pass that ends failed because the record insert
\* failed leaves no verified/rejected audit entry.
C24_AuditAfterRecord ==
    [][\A i \in IssueIds :
          (\E r \in verification_audit_log' \ verification_audit_log :
               r.issue_id = i /\ r.status \in {"verified", "rejected"})
             => /\ Len(issues_verified'[i]) + Len(issues_rejected'[i]) > Records(i)
                /\ issues'[i].verification_status # "failed"]_vars

\* the attempts of the address with the given outcome in the window of
\* length w that ends now
IpAttemptsIn(ip, success, w) ==
    Copies(supabase.ip_rate_limit_tracking,
           {r \in DOMAIN supabase.ip_rate_limit_tracking :
               r.ip_address = ip /\ r.success = success /\ r.timestamp > now - w})

\* C25: check_ip_rate_limit with check_rejections = false counts only the
\* address's successful attempts, and with check_rejections = true only its
\* rejected attempts against the stricter rejection limits, in the hourly and
\* in the daily window: it allows exactly when both counts are below the
\* limits.
C25_IpLimitCountsOneKind ==
    request.op = "check_ip_rate_limit"
       => LET ip == request.args[1]
              check_rejections == request.args[2]
              limits == IF check_rejections THEN IP_REJECTION_LIMITS ELSE IP_LIMITS
          IN decision.allowed
                <=> /\ IpAttemptsIn(ip, ~check_rejections, HOUR) < limits.max_per_hour
                    /\ IpAttemptsIn(ip, ~check_rejections, DAY) < limits.max_per_day

\* the abuse entries of the last 24 hours that satisfy the test of a column
RecentAbuse(db, column, value, t) ==
    Copies(db.abuse_logs,
           {r \in DOMAIN db.abuse_logs : r[column] = value /\ r.timestamp > t - DAY})

\* this step is a call of log_abuse
LogAbuseStep == steps' = steps + 1 /\ request'.op = "log_abuse"

\* C26: after log_abuse returns for an identity that has at least 5 abuse
\* entries within the last 24 hours (the entry just written included) the
\* identity is shadow-banned; with fewer than 5 log_abuse does not
\* shadow-ban it.
C26_FiveViolationsShadowBan ==
    [][LogAbuseStep =>
          LET user_id == request'.args[1]
              violation_count == RecentAbuse(supabase', "user_id", user_id, now)
          IN /\ RecentAbuse(supabase, "user_id", user_id, now) = violation_count - 1
             /\ violation_count >= 5 => supabase'.users[user_id].is_shadow_banned
             /\ violation_count < 5 => supabase'.users[user_id] = supabase.users[user_id]]_vars

\* C26 witness: log_abuse has just written the reporter's fifth entry of the
\* last 24 hours and the reporter is shadow-banned
C26_Witness ==
    /\ request.op = "log_abuse"
    /\ RecentAbuse(supabase, "user_id", request.args[1], now) = 5
    /\ supabase.users[request.args[1]].is_shadow_banned

\* C27: when log_abuse leaves an address with at least 10 abuse entries
\* within the last 24 hours, the escalation is handed to the Rate Limiter:
\* escalate_ip_ban has been invoked for the address with its violation count,
\* so the address is on the blacklist with that count.
C27_TenViolationsEscalateIp ==
    [][LogAbuseStep =>
          LET ip_address == request'.args[2]
              ip_violation_count == RecentAbuse(supabase', "ip_address", ip_address, now)
          IN ip_violation_count >= 10
                => /\ ip_address \in DOMAIN supabase'.ip_blacklist
                   /\ supabase'.ip_blacklist[ip_address].violation_count
                         = ip_violation_count]_vars

\* the content-safety detectors in their fixed order, with the trust delta of
\* the policy table (EXIF has none: it never fails)
DetectorOrder == <<"nsfw", "duplicate", "ocr", "garbage", "exif">>
PolicyDelta == [nsfw |-> -30, duplicate |-> -10, ocr |-> -5, garbage |-> -5]

\* the position in DetectorOrder of the first detector that rejects the
\* image (0 when none does)
FirstFailing(image) ==
    LET failing == {k \in 1..4 : image[DetectorOrder[k]]}
    IN IF failing = {} THEN 0 ELSE CHOOSE k \in failing : \A j \in failing : k <= j

\* this step is a Gate run that reached the content filters
ContentStep ==
    /\ steps' = steps + 1
    /\ request'.op = "run_all_checks"
    /\ Len(evaluated') > 4

\* C28: the detectors run in the order unsafe-content, duplicate,
\* screenshot/OCR, low-quality, EXIF; the first one that fails stops the
\* sequence and EXIF never fails.  On a failure the Gate writes exactly one
\* abuse entry of the failing filter's type and applies that filter's delta
\* of the policy table exactly once (the score is kept within 0..100); when
\* no detector fails it writes no abuse entry and leaves the score.
C28_ContentFiltersShortCircuit ==
    [][ContentStep =>
          LET user_id == request'.args[1]
              k == FirstFailing(request'.args[3])
              ran == SubSeq(evaluated', 5, Len(evaluated'))
              score == supabase.users[user_id].trust_score
          IN IF k = 0
             THEN /\ ran = DetectorOrder \o <<"trust_evaluation">>
                  /\ decision'.allowed
                  /\ supabase'.abuse_logs = supabase.abuse_logs
                  /\ supabase'.users[user_id].trust_score = score
             ELSE /\ ran = SubSeq(DetectorOrder, 1, k)
                  /\ ~decision'.allowed
                  /\ \E r \in DOMAIN supabase'.abuse_logs :
                        /\ r.violation_type = DetectorOrder[k]
                        /\ r.user_id = user_id
                        /\ supabase'.abuse_logs = Insert(supabase.abuse_logs, r)
                  /\ supabase'.users[user_id].trust_score
                        = Max(0, Min(100, score + PolicyDelta[DetectorOrder[k]]))]_vars

\* C28 witness: an image that every detector would reject was stopped by the
\* unsafe-content detector alone: one nsfw abuse entry, the score at 70
C28_Witness ==
    /\ request.op = "run_all_checks"
    /\ request.args[3] = Image(TRUE, TRUE, TRUE, TRUE)
    /\ evaluated = <<"shadow_ban", "ip_blacklist", "user_rate_limit", "ip_rate_limit", "nsfw">>
    /\ Copies(supabase.abuse_logs, DOMAIN supabase.abuse_logs) = 1
    /\ \A r \in DOMAIN supabase.abuse_logs : r.violation_type = "nsfw"
    /\ supabase.users[request.args[1]].trust_score = 70

\* this step is a Gate run that the user rate limit denied
UserRateDeniedStep ==
    /\ steps' = steps + 1
    /\ request'.op = "run_all_checks"
    /\ evaluated' = <<"shadow_ban", "ip_blacklist", "user_rate_limit">>

\* C29: when the user rate limit denies, the Gate returns allowed = false
\* with the limiter's reason and its retry_after (3600 or 86400), writes
\* exactly one low-severity rate_limit abuse entry and applies the rate-limit
\* penalty (-3) exactly once; the decision's trust_score is the score after
\* the penalty.
C29_UserRateDenial ==
    [][UserRateDeniedStep =>
          LET user_id == request'.args[1]
              score == supabase.users[user_id].trust_score
              limit == check_user_rate_limit(supabase, user_id, score, now)
          IN /\ ~decision'.allowed
             /\ decision'.reason = limit.reason
             /\ decision'.retry_after = limit.retry_after
             /\ decision'.retry_after \in {3600, 86400}
             /\ \E r \in DOMAIN supabase'.abuse_logs :
                   /\ r.violation_type = "rate_limit" /\ r.severity = "low"
                   /\ r.user_id = user_id
                   /\ supabase'.abuse_logs = Insert(supabase.abuse_logs, r)
             /\ supabase'.users[user_id].trust_score = Max(0, score - 3)
             /\ decision'.trust_score = supabase'.users[user_id].trust_score]_vars

\* the rows of a tracking table that record a successful attempt
SuccessRows(table) == {r \in DOMAIN table : r.success}

\* C30: the Gate returns allowed = true only when no stage denied, and on
\* that path records exactly one successful attempt for the identity and one
\* for the IP; a run that returns allowed = false records no successful
\* attempt.
C30_AllowRecordsOneSuccess ==
    [][GateRuns =>
         LET u == request'.args[1]
             ip == request'.args[2]
             image == request'.args[3]
             user_row == [user_id |-> u, success |-> TRUE, timestamp |-> now]
             ip_row == [ip_address |-> ip, success |-> TRUE, user_id |-> u,
                        timestamp |-> now]
         IN IF decision'.allowed
            THEN /\ \A j \in 1..Len(StageOrder) : ~Denies(j, u, ip, image)
                 /\ evaluated' = StageOrder
                 /\ supabase'.user_rate_limit_tracking
                        = Insert(supabase.user_rate_limit_tracking, user_row)
                 /\ supabase'.ip_rate_limit_tracking
                        = Insert(supabase.ip_rate_limit_tracking, ip_row)
            ELSE \A table \in {"user_rate_limit_tracking", "ip_rate_limit_tracking"} :
                    \A r \in SuccessRows(supabase'[table]) :
                        /\ r \in SuccessRows(supabase[table])
                        /\ supabase'[table][r] = supabase[table][r]]_vars

\* an allowed run has just added the second success row of this hour for the
\* identity and its address
C30_Witness ==
    /\ request.op = "run_all_checks"
    /\ decision.allowed
    /\ evaluated = StageOrder
    /\ \E r \in SuccessRows(supabase.user_rate_limit_tracking) :
          /\ r.user_id = request.args[1] /\ r.timestamp = now
          /\ supabase.user_rate_limit_tracking[r] >= 2
    /\ \E r \in SuccessRows(supabase.ip_rate_limit_tracking) :
          /\ r.ip_address = request.args[2] /\ r.user_id = request.args[1]
          /\ r.timestamp = now

(* ------------------------ claims C31 .. C40 ---------------------------- *)

\* the lookup or detector of stage k raises in the state the run starts in
Erring(k, image) ==
    CASE k = 1 -> Down(supabase, "users")
      [] k = 2 -> Down(supabase, "ip_blacklist")
      [] k = 3 -> Down(supabase, "user_rate_limit_tracking")
      [] k = 4 -> Down(supabase, "ip_rate_limit_tracking")
      [] k \in 5..8 -> StageOrder[k] \in image.raises
      [] OTHER -> FALSE

\* C31: an error raised inside a content detector, a rate-limit lookup, the
\* blacklist lookup or the shadow-ban lookup during a Gate run never produces
\* a denial and never leaves run_all_checks: the run returns a decision, a
\* denial is never the decision of a stage that raised, and after a stage
\* that raised the evaluation goes on with the next stage, in order, up to
\* the first stage that denies or to the end.
C31_StageErrorsFailOpen ==
    [][GateRuns =>
         LET image == request'.args[3]
             k == Len(evaluated')
         IN /\ "allowed" \in DOMAIN decision'
            /\ evaluated' = SubSeq(StageOrder, 1, k)
            /\ decision'.allowed => k = Len(StageOrder)
            /\ ~decision'.allowed => ~Erring(k, image)]_vars

\* a run from a permanently banned address on an image every detector would
\* reject was allowed: the blacklist lookup and the detectors raised
C31_Witness ==
    /\ request.op = "run_all_checks"
    /\ decision.allowed
    /\ Down(supabase, "ip_blacklist")
    /\ request.args[2] \in DOMAIN supabase.ip_blacklist
    /\ supabase.ip_blacklist[request.args[2]].banned_until = NULL
    /\ request.args[3].garbage
    /\ request.args[3].raises = {"nsfw", "duplicate", "ocr", "garbage"}

\* the reply is retried when the budget allows: unparsable content or an
\* error that is not a quota error
Retried(reply) ==
    \/ reply.kind = "unparsable"
    \/ /\ reply.kind = "error"
       /\ reply.error_type \notin {"RateLimitError", "InsufficientQuotaError"}
       /\ ~reply.quota_in_message

\* C32: verify_issue_with_ai makes at most its configured number of
\* classifier calls per invocation (max_retries, or the setting when none is
\* given); a transient error or an unparsable response is retried within
\* that budget, a quota or rate-limit error stops with no further call, the
\* first valid verdict is returned, and otherwise the result is no verdict.
C32_ClassifierCallsBounded ==
    request.op = "verify_issue_with_ai" =>
        LET replies == request.args[4]
            budget == IF request.args[5] \in {NULL, 0} THEN AI_MAX_RETRIES
                      ELSE request.args[5]
            calls == Len(evaluated)
            prepared == request.args[1] /\ request.args[2] /\ request.args[3]
        IN /\ calls <= budget
           /\ evaluated = SubSeq(replies, 1, calls)
           /\ \A k \in 1..(calls - 1) : Retried(replies[k])
           /\ prepared => calls >= 1
           /\ (prepared /\ calls < budget) => ~Retried(replies[calls])
           /\ IF calls >= 1 /\ replies[calls].kind = "verdict"
              THEN decision.verdict = replies[calls].verdict
              ELSE decision.verdict = NULL

\* two transient failures used up before a quota error ended the invocation
\* on its third call, with no verdict
C32_Witness ==
    /\ request.op = "verify_issue_with_ai"
    /\ Len(evaluated) = 3
    /\ evaluated[1].kind = "error" /\ evaluated[2].kind = "unparsable"
    /\ evaluated[3].kind = "error" /\ evaluated[3].error_type = "RateLimitError"
    /\ decision.verdict = NULL

C34_AuditAttemptNumber ==
    [][\A a \in verification_audit_log' \ verification_audit_log :
          a.attempt_number = issues'[a.issue_id].retry_count]_vars

\* this step is a Gate run that the IP rate limit denied
IpRateDeniedStep ==
    /\ steps' = steps + 1
    /\ request'.op = "run_all_checks"
    /\ evaluated' = <<"shadow_ban", "ip_blacklist", "user_rate_limit", "ip_rate_limit">>

\* C35: when the IP rate limit denies, the Gate writes exactly one
\* medium-severity ip_rate_limit abuse entry and returns allowed = false with
\* the limiter's retry_after; it leaves the identity's trust_score unchanged:
\* no penalty is applied and the decision's trust_score is the score fetched
\* before the check.
C35_IpRateDenialNoPenalty ==
    [][IpRateDeniedStep =>
          LET user_id == request'.args[1]
              ip_address == request'.args[2]
              limit == check_ip_rate_limit(supabase, ip_address, FALSE, now)
          IN /\ ~decision'.allowed
             /\ ~limit.allowed
             /\ decision'.retry_after = limit.retry_after
             /\ decision'.retry_after \in {3600, 86400}
             /\ decision'.severity = "medium"
             /\ supabase'.abuse_logs =
                    Insert(supabase.abuse_logs,
                           [user_id |-> user_id, ip_address |-> ip_address,
                            violation_type |-> "ip_rate_limit", severity |-> "medium",
                            timestamp |-> now])
             /\ \A u \in Users :
                    supabase'.users[u].trust_score = supabase.users[u].trust_score
             /\ decision'.trust_score = supabase.users[user_id].trust_score]_vars

\* an IP rate denial of a reporter whose score is not the default
C35_Witness ==
    /\ request.op = "run_all_checks"
    /\ evaluated = <<"shadow_ban", "ip_blacklist", "user_rate_limit", "ip_rate_limit">>
    /\ ~decision.allowed
    /\ decision.trust_score = 85
    /\ supabase.users[request.args[1]].trust_score = 85
    /\ \E r \in DOMAIN supabase.abuse_logs : r.violation_type = "ip_rate_limit"

\* a pass on submission i goes to the classifier in this step, or takes the
\* fallback verdict (it writes the audit entry of a verdict without having
\* been suspended at the classifier)
ReachesClassifier(i) ==
    \/ in_flight[i].pc # "ai" /\ in_flight'[i].pc = "ai"
    \/ /\ in_flight[i] = NoPass
       /\ \E a \in verification_audit_log' \ verification_audit_log :
             a.issue_id = i /\ a.status \in {"verified", "rejected"}

\* C36: every pass that reaches the classifier (or the fallback) has first
\* increased the submission's stored retry_count by exactly one; no pass
\* calls the classifier without that increment having been stored.
C36_IncrementBeforeClassifier ==
    [][\A i \in IssueIds :
          ReachesClassifier(i) => issues'[i].retry_count = issues[i].retry_count + 1]_vars

\* this step is a call of check_ip_blacklist
BlacklistLookupStep == steps' = steps + 1 /\ request'.op = "check_ip_blacklist"

\* C37: check_ip_blacklist returns blocked with the stored reason for an IP
\* that has a permanent or unexpired BanRecord; for an expired BanRecord it
\* deletes the record and returns not-blocked; a permanent ban (banned_until
\* null) is never lazily deleted.
C37_BlacklistLookup ==
    [][BlacklistLookupStep =>
          LET ip == request'.args[1]
              bans == supabase.ip_blacklist
          IN IF ip \notin DOMAIN bans
             THEN ~decision'.blocked /\ supabase' = supabase
             ELSE IF bans[ip].banned_until = NULL \/ now <= bans[ip].banned_until
             THEN /\ decision'.blocked
                  /\ decision'.reason = bans[ip].reason
                  /\ supabase' = supabase
             ELSE /\ ~decision'.blocked
                  /\ DOMAIN supabase'.ip_blacklist = DOMAIN bans \ {ip}
                  /\ \A other \in DOMAIN supabase'.ip_blacklist :
                        supabase'.ip_blacklist[other] = bans[other]]_vars

\* a lookup at a later hour has just found a ban without an end, reported it
\* with its stored reason and left it in the store
C37_Witness ==
    /\ request.op = "check_ip_blacklist"
    /\ request.args[1] \in DOMAIN supabase.ip_blacklist
    /\ supabase.ip_blacklist[request.args[1]].banned_until = NULL
    /\ decision.blocked
    /\ decision.reason = supabase.ip_blacklist[request.args[1]].reason
    /\ now = 2

\* this step is a call of record_attempt
RecordAttemptStep == steps' = steps + 1 /\ request'.op = "record_attempt"

\* C38: each record_attempt call appends exactly one RateRecord for the
\* identity and exactly one for the IP, both carrying the given success flag,
\* whether the attempt succeeded or not; it never leaves one of the two
\* appended without the other.
C38_RecordAttemptBothRows ==
    [][RecordAttemptStep =>
          LET u == request'.args[1]
              ip == request'.args[2]
              success == request'.args[3]
          IN /\ supabase'.user_rate_limit_tracking =
                    Insert(supabase.user_rate_limit_tracking,
                           [user_id |-> u, success |-> success, timestamp |-> now])
             /\ supabase'.ip_rate_limit_tracking =
                    Insert(supabase.ip_rate_limit_tracking,
                           [ip_address |-> ip, success |-> success, user_id |-> u,
                            timestamp |-> now])]_vars

\* the rows of table ip_blacklist for the address
BanRecords(db, ip_address) ==
    (IF ip_address \in DOMAIN db.ip_blacklist THEN 1 ELSE 0)
    + Len(SelectSeq(db.ip_blacklist_more, LAMBDA r : r.ip_address = ip_address))

\* an escalation has written in this step
EscalationWritten == request'.op = "escalate_ip_ban" /\ gate_pc' # gate_pc

\* C39: after any sequence or interleaving of escalate_ip_ban and
\* check_ip_blacklist calls there is at most one ban record per IP, and it
\* carries the violation count and the ladder duration of the most recent
\* escalation for that IP.
C39_OneBanPerIp ==
    [][/\ \A ip \in Ips : BanRecords(supabase', ip) <= 1
       /\ EscalationWritten =>
             LET ip == request'.args[1]
                 n == request'.args[2]
                 t == request'.args[3]
             IN ip \in DOMAIN supabase'.ip_blacklist =>
                   /\ supabase'.ip_blacklist[ip].violation_count = n
                   /\ supabase'.ip_blacklist[ip].banned_until =
                         (IF LadderDuration(n) = NULL THEN NULL
                          ELSE t + LadderDuration(n))]_vars

\* C40: the in-memory processing guard holds a submission id only while a
\* process_issue call for that id is in flight: the id is removed on every
\* exit path (verdict, no verdict, retry cap reached, exception,
\* cancellation), so no id is left held after its pass ends.
C40_GuardOnlyInFlight ==
    processing_lock = {i \in IssueIds : in_flight[i] # NoPass}

\* the polling loop was cancelled inside a pass: the pass wrote its
\* "processing" entry and no other, and its id is not held
C40_Witness ==
    /\ worker_pc = "cancelled"
    /\ \E i \in IssueIds :
          /\ in_flight[i] = NoPass
          /\ i \notin processing_lock
          /\ issues[i].retry_count = 1
          /\ \E a \in verification_audit_log :
                a.issue_id = i /\ a.status = "processing"
          /\ \A a \in verification_audit_log :
                a.issue_id = i => a.status = "processing"

====
